---- MODULE Spec2Model ----
(***************************************************************************)
(* Model of the retrieval orchestrator of the Multi-Mode RAG backend:      *)
(*   backend/database.py    DatabaseHandler (resilient vector search)      *)
(*   backend/chat_engine.py ChatEngine (router and strategy pipelines)     *)
(*   backend/rag_tools.py   RAGTools (memoized embedding lookups)          *)
(*                                                                         *)
(* Documents are identifiers 1..NumDocs; their stored fields are given by  *)
(* Field.  A filter_dict is a function from a set of keys to values; the   *)
(* empty function stands for both None and {} (both are falsy in Python).  *)
(* Every call to the search backend (collection.aggregate) answers with a  *)
(* response chosen by the environment: a list of documents or an error.    *)
(***************************************************************************)
EXTENDS Integers, Sequences, FiniteSets, TLC

\* ------------------------------------------------------------------ bounds
NumDocs == 3
MaxDocs == 3
MaxLimit == 2
MaxCount == 2
NumThreads == 2
MaxLists == 4
MaxLen == 4

\* --------------------------------------------------------------- constants
FallbackLimit == 100
FallbackNumCandidates == 250
SearchNumCandidates == 100

None == "None"

Min(a, b) == IF a < b THEN a ELSE b

\* ------------------------------------------------------------------ corpus
DocIds == 1..NumDocs

\* str(d.get("_id")).  The documents of the corpus are 1..NumDocs; d + NumDocs
\* is another copy of document d, with the same _id, as a second search
\* returns it.  The numbers above 2 * NumDocs are further documents of the
\* catalogue, each with its own _id, that fill long result lists.
DocId(d) == IF d > 2 * NumDocs THEN d ELSE ((d - 1) % NumDocs) + 1

Keys == {"category", "brand", "page"}

\* doc.get(k): the stored value of field k of document d, None when absent.
Field(d, k) ==
  CASE k = "category" -> IF d % 4 = 0 THEN None
                         ELSE IF d % 4 = 3 THEN "tools" ELSE "automotive"
    [] k = "brand"    -> IF d % 2 = 1 THEN "wurth" ELSE "bosch"
    [] k = "page"     -> IF d % 2 = 0 THEN None ELSE "p1"
    [] OTHER          -> None

FilterValue(k) ==
  CASE k = "category" -> "automotive"
    [] k = "brand"    -> "wurth"
    [] OTHER          -> "p1"

\* filter_dict arguments: None/{} (the empty function) or a dict over some keys.
Filters == { [k \in S |-> FilterValue(k)] : S \in SUBSET Keys }

NoFilter == [k \in {} |-> None]

\* list(filter_dict.keys()) for the dicts with the items of filter_dict: the
\* keys in the order the caller inserted them, which is any order.
FilterKeys(filter_dict) ==
  { ks \in [1..Cardinality(DOMAIN filter_dict) -> DOMAIN filter_dict] :
      \A i, j \in DOMAIN ks : i # j => ks[i] # ks[j] }

\* Ranked lists a backend call can return: no identifier twice, bounded length.
RankedLists ==
  { s \in UNION { [1..n -> DocIds] : n \in 0..MaxDocs } :
      \A i, j \in DOMAIN s : i # j => s[i] # s[j] }

\* ------------------------------------------------------- backend responses
NoErr == [cls |-> "none", indexed_as_filter |-> FALSE]

\* Exceptions collection.aggregate can raise: its class and whether str(e)
\* contains "indexed as filter".
Errors == [cls : {"OperationFailure", "ConnectionFailure"}, indexed_as_filter : BOOLEAN]

OkResp(docs) == [ok |-> TRUE, docs |-> docs, err |-> NoErr]
ErrResp(e) == [ok |-> FALSE, docs |-> <<>>, err |-> e]
NoResp == [ok |-> FALSE, docs |-> <<>>, err |-> NoErr]

\* The filter predicate of manual filtering: every key/value of the filter.
DocMatches(d, filter_dict) ==
  \A k \in DOMAIN filter_dict : Field(d, k) = filter_dict[k]

\* What the backend may answer to a $vectorSearch with these parameters: at most
\* `limit` documents, all satisfying the filter it was given, or an error.
Responses(call) ==
  { OkResp(s) : s \in { t \in RankedLists :
                          /\ Len(t) <= call.limit
                          /\ \A i \in DOMAIN t : DocMatches(t[i], call.filter) } }
  \cup { ErrResp(e) : e \in Errors }

\* ------------------------------------------------------------------- state
VARIABLES
  broken_filters,  \* DatabaseHandler._broken_filters (the capability registry)
  th,              \* per calling thread: its position in _execute_resilient_search,
                   \* its request, the backend calls issued so far, its outcome
  nthreads,        \* how many threads call the handler (1: searches in sequence)
  cap_fails,       \* per key: filtered backend calls answered by a capability error
  ask,             \* the ask() call in progress or last finished: its position,
                   \* arguments, locals, the searches and generator calls it made
  fn,              \* the last direct call of a helper of ChatEngine or RAGTools:
                   \* its name, its arguments and what it returned
  text_cache,      \* RAGTools._text_cache: text -> embedding, the entries for Texts
  clip_text_cache, \* RAGTools._clip_text_cache, the entries for Texts
  encodes          \* per text: how often each embedding model was invoked for it
                   \* and how often it returned

vars == <<broken_filters, th, nthreads, cap_fails, ask, fn,
          text_cache, clip_text_cache, encodes>>

Threads == 1..NumThreads

\* The texts whose cache entries are followed: strings that differ in case or
\* in a trailing blank only.  The requests of ask() look up other strings
\* (Questions and what the generator returns), which leaves these entries alone.
Texts == { <<97>>, <<65>>, <<97, 32>> }

\* What an embedding model can return for a text.
Vectors == { <<1, 0>>, <<0, 1>> }

\* ------------------------------------------------------- DatabaseHandler
Take(s, n) == SubSeq(s, 1, Min(n, Len(s)))

\* search_params of vector_search / visual_search / unified_search /
\* strict_visual_search: the index searched and the requested limit.
SearchParams(index, limit) ==
  [index |-> index, numCandidates |-> SearchNumCandidates, limit |-> limit,
   filter |-> NoFilter]

\* full_params: search_params plus the filter when filter_dict is truthy.
FullParams(search_params, filter_dict) ==
  IF DOMAIN filter_dict # {} THEN [search_params EXCEPT !.filter = filter_dict]
  ELSE search_params

\* retry_params of _manual_fallback: widened, never filtered.
RetryParams(search_params) ==
  [search_params EXCEPT !.limit = FallbackLimit,
                        !.numCandidates = FallbackNumCandidates,
                        !.filter = NoFilter]

IsRetry(call) ==
  call.limit = FallbackLimit /\ call.numCandidates = FallbackNumCandidates

\* Variant: falls back only when every key of the filter is known broken.
KnownBroken_all(broken, filter_dict) ==
  /\ DOMAIN filter_dict # {}
  /\ \A k \in DOMAIN filter_dict : k \in broken

\* for k in filter_dict.keys(): if k in self._broken_filters: -> fallback
KnownBroken(broken, filter_dict) ==
  \E k \in DOMAIN filter_dict : k \in broken

\* Variant: the message test never matches.
IsCapabilityError_never(e, filter_dict) == FALSE

\* Variant: the message test alone, whatever the filter.
IsCapabilityError_anyfilter(e, filter_dict) ==
  /\ e.cls = "OperationFailure"
  /\ e.indexed_as_filter

\* except OperationFailure as e: if "indexed as filter" in str(e) and filter_dict
IsCapabilityError(e, filter_dict) ==
  /\ e.cls = "OperationFailure"
  /\ e.indexed_as_filter
  /\ DOMAIN filter_dict # {}

\* Variant: the registry is replaced by the keys of the failing filter.
LearnBroken_replace(broken, k) == {k}

\* Variant: the update is written from the registry as it was constructed,
\* losing what other searches have added since.
LearnBroken_stale(broken, k) == {"category"} \cup {k}

\* self._broken_filters.add(k)
LearnBroken(broken, k) == broken \cup {k}

\* The local filtering loop of _manual_fallback.
ManualFilter(results, filter_dict) ==
  SelectSeq(results, LAMBDA d : DocMatches(d, filter_dict))

\* Variant: the locally filtered list is returned without truncation.
manual_fallback_untruncated(search_params, filter_dict, r2) ==
  IF r2.ok
  THEN [ok |-> TRUE, docs |-> ManualFilter(r2.docs, filter_dict), err |-> NoErr]
  ELSE [ok |-> FALSE, docs |-> <<>>, err |-> r2.err]

\* _manual_fallback once its unfiltered backend call was answered by r2: local
\* filtering and truncation to the requested limit.  An error of the call is
\* not caught.
manual_fallback(search_params, filter_dict, r2) ==
  IF r2.ok
  THEN [ok |-> TRUE,
        docs |-> Take(ManualFilter(r2.docs, filter_dict), search_params.limit),
        err |-> NoErr]
  ELSE [ok |-> FALSE, docs |-> <<>>, err |-> r2.err]

\* A thread outside any search, and a thread entering _execute_resilient_search.
ThreadIdle ==
  [pc |-> "idle", method |-> None, sp |-> SearchParams(None, 0),
   filter |-> NoFilter, keys |-> <<>>, i |-> 0, calls |-> <<>>, resps |-> <<>>,
   ok |-> TRUE, docs |-> <<>>, err |-> NoErr]

Enter(method, search_params, filter_dict, keys) ==
  [pc |-> "check", method |-> method, sp |-> search_params,
   filter |-> filter_dict, keys |-> keys, i |-> 0, calls |-> <<>>, resps |-> <<>>,
   ok |-> TRUE, docs |-> <<>>, err |-> NoErr]

\* One step of _execute_resilient_search for a thread in state s with the
\* registry `broken`; resp is the backend's answer when the step is a backend
\* call.  Positions: "check" (the registry test), "attempt" (the filtered or
\* direct backend call and its except clause), "learn" (one add() of the
\* registry update, i keys of the filter being added already),
\* "fallback" (_manual_fallback), "done" (returned or raised).  calls and resps
\* record the backend calls issued and what the backend answered to each.
\* keys, the order in which the loop of the registry update meets the keys, is
\* kept as long as that loop can still run.
DbStep(s, broken, resp) ==
  CASE s.pc = "check" ->
         [s |-> IF KnownBroken(broken, s.filter)
                THEN [s EXCEPT !.pc = "fallback", !.keys = <<>>]
                ELSE [s EXCEPT !.pc = "attempt"],
          broken |-> broken]
    [] s.pc = "attempt" ->
         LET called == [s EXCEPT !.calls = Append(@, FullParams(s.sp, s.filter)),
                                 !.resps = Append(@, resp)] IN
         [s |-> IF resp.ok
                THEN [called EXCEPT !.pc = "done", !.keys = <<>>, !.docs = resp.docs]
                ELSE IF IsCapabilityError(resp.err, s.filter)
                THEN [called EXCEPT !.pc = "learn"]
                ELSE [called EXCEPT !.pc = "done", !.keys = <<>>,
                                    !.ok = FALSE, !.err = resp.err],
          broken |-> broken]
    [] s.pc = "learn" ->
         LET keys == s.keys
             last == s.i + 1 >= Len(keys)
         IN [s |-> [s EXCEPT !.pc = IF last THEN "fallback" ELSE "learn",
                             !.i = IF last THEN 0 ELSE s.i + 1,
                             !.keys = IF last THEN <<>> ELSE keys],
             broken |-> IF s.i < Len(keys)
                        THEN LearnBroken(broken, keys[s.i + 1]) ELSE broken]
    [] s.pc = "fallback" ->
         LET fb == manual_fallback(s.sp, s.filter, resp) IN
         [s |-> [s EXCEPT !.pc = "done",
                          !.calls = Append(@, RetryParams(s.sp)),
                          !.resps = Append(@, resp),
                          !.ok = fb.ok, !.docs = fb.docs, !.err = fb.err],
          broken |-> broken]
    [] OTHER -> [s |-> s, broken |-> broken]

RECURSIVE DbRun(_, _, _, _)
DbRun(s, broken, r1, r2) ==
  IF s.pc \in {"done", "idle"} THEN [s |-> s, broken |-> broken]
  ELSE LET n == DbStep(s, broken, IF s.pc = "fallback" THEN r2 ELSE r1)
       IN DbRun(n.s, n.broken, r1, r2)

\* _execute_resilient_search run to its end.  r1 answers the first (filtered or
\* direct) backend call when it is issued, r2 the fallback call when it is
\* issued.  The result holds the registry afterwards, the backend calls issued
\* in order, and the value returned (ok, docs) or the exception raised (err).
\* None of these depends on the order of the keys of filter_dict: one order is
\* taken.
execute_resilient_search(broken, search_params, filter_dict, r1, r2) ==
  LET keys == SelectSeq(<<"category", "brand", "page">>, LAMBDA k : k \in DOMAIN filter_dict)
      end == DbRun(Enter(None, search_params, filter_dict, keys), broken, r1, r2) IN
  [broken |-> end.broken, calls |-> end.s.calls, resps |-> end.s.resps,
   ok |-> end.s.ok, docs |-> end.s.docs, err |-> end.s.err]

\* The backend answers one complete search can receive: pairs <<r1, r2>>, a slot
\* being NoResp when the search never issues that call.
Answers(broken, search_params, filter_dict) ==
  LET first == execute_resilient_search(broken, search_params, filter_dict, NoResp, NoResp).calls
      R1 == IF Len(first) > 0 /\ ~IsRetry(first[1])
            THEN Responses(first[1]) ELSE {NoResp}
  IN UNION { LET calls == execute_resilient_search(broken, search_params, filter_dict, r1, NoResp).calls
                 R2 == IF \E i \in DOMAIN calls : IsRetry(calls[i])
                       THEN Responses(RetryParams(search_params)) ELSE {NoResp}
             IN { <<r1, r2>> : r2 \in R2 }
           : r1 \in R1 }

\* -------------------------------------------------------------- ask: state
\* result without relevance_score
NoScore == [unit |-> -1, frac |-> <<>>]

NoDocs == [some |-> FALSE, docs |-> <<>>]

\* `if initial_docs:` is true for a non-empty list only
Truthy(initial_docs) == initial_docs.some /\ initial_docs.docs # <<>>

NoSearch == [calls |-> <<>>, resps |-> <<>>, ok |-> TRUE, err |-> NoErr]

NoResult == [status |-> "none", mode |-> None, keys |-> {}, err |-> NoErr]

\* no helper called yet
NoCall ==
  [op |-> "none", lists |-> <<>>, docs |-> <<>>, text_docs |-> <<>>, limit |-> 0,
   query |-> <<>>, cached |-> FALSE, raised |-> FALSE, out |-> <<>>]

AskIdle ==
  [pc |-> "idle", question |-> <<>>, req_mode |-> None, rag_mode |-> None,
   pipeline |-> None, initial_docs |-> NoDocs, category |-> None, docs |-> <<>>,
   score |-> NoScore, rewritten_q |-> <<>>, v_query |-> <<>>, entities |-> <<>>,
   enriched |-> <<>>, queries |-> <<>>, all_results |-> <<>>, answer |-> None,
   images |-> <<>>, i |-> 0, searches |-> <<>>, img_searches |-> <<>>,
   gens |-> <<>>,
   db |-> NoSearch, result |-> NoResult]

Sat(n) == Min(n + 1, MaxCount)

\* A thread calls a search method with a dict whose keys were inserted in the
\* order `keys': the method builds search_params and enters
\* _execute_resilient_search.
CallSearch(t, method, index, limit, filter_dict) ==
  /\ t <= nthreads
  /\ th[t].pc = "idle"
  /\ ask.pc = "idle"
  /\ \E keys \in FilterKeys(filter_dict) :
       th' = [th EXCEPT ![t] = Enter(method, SearchParams(index, limit), filter_dict, keys)]
  /\ UNCHANGED ask
  /\ UNCHANGED <<broken_filters, nthreads, text_cache, clip_text_cache, encodes, fn, cap_fails>>

vector_search(t) ==
  \E limit \in 1..MaxLimit, f \in Filters :
    CallSearch(t, "vector_search", "vector_index", limit, f)

visual_search(t) ==
  \E limit \in 1..MaxLimit, f \in Filters :
    CallSearch(t, "visual_search", "image_vector_index", limit, f)

unified_search(t) ==
  \E limit \in 1..MaxLimit, f \in Filters :
    CallSearch(t, "unified_search", "vector_index", limit, f)

\* Variant: the category is never made a filter.
CategoryFilter_none(category) == NoFilter

\* filter_dict = {"category": category} if category else None
CategoryFilter(category) ==
  IF category # None /\ category # "" THEN [k \in {"category"} |-> category] ELSE NoFilter

strict_visual_search(t) ==
  \E limit \in 1..MaxLimit, category \in {None, "", "automotive"} :
    CallSearch(t, "strict_visual_search", "unified_clip_index", limit,
               CategoryFilter(category))

\* The registry test at the head of _execute_resilient_search.
CheckRegistry(t) ==
  /\ t <= nthreads
  /\ th[t].pc = "check"
  /\ th' = [th EXCEPT ![t] = DbStep(th[t], broken_filters, NoResp).s]
  /\ UNCHANGED <<broken_filters, nthreads, text_cache, clip_text_cache, encodes, fn, cap_fails, ask>>

\* collection.aggregate(pipeline) inside the try, with its except clause.
Attempt(t) ==
  /\ t <= nthreads
  /\ th[t].pc = "attempt"
  /\ \E resp \in Responses(FullParams(th[t].sp, th[t].filter)) :
       LET capfail == /\ DOMAIN th[t].filter # {}
                      /\ ~resp.ok
                      /\ resp.err.cls = "OperationFailure"
                      /\ resp.err.indexed_as_filter
       IN /\ th' = [th EXCEPT ![t] = DbStep(th[t], broken_filters, resp).s]
          /\ cap_fails' = [k \in Keys |->
                             IF capfail /\ k \in DOMAIN th[t].filter
                             THEN Sat(cap_fails[k]) ELSE cap_fails[k]]
  /\ UNCHANGED <<broken_filters, nthreads, text_cache, clip_text_cache, encodes, fn, ask>>

\* One turn of the loop of the except clause: the next key of the filter is
\* added to the registry; after the last key the search goes on to the
\* fallback.  Other threads run between two turns.
Learn(t) ==
  /\ t <= nthreads
  /\ th[t].pc = "learn"
  /\ LET n == DbStep(th[t], broken_filters, NoResp) IN
       /\ th' = [th EXCEPT ![t] = n.s]
       /\ broken_filters' = n.broken
  /\ UNCHANGED <<nthreads, text_cache, clip_text_cache, encodes, fn, cap_fails, ask>>

\* _manual_fallback: the unfiltered backend call and the local filtering.
Fallback(t) ==
  /\ t <= nthreads
  /\ th[t].pc = "fallback"
  /\ \E resp \in Responses(RetryParams(th[t].sp)) :
       th' = [th EXCEPT ![t] = DbStep(th[t], broken_filters, resp).s]
  /\ UNCHANGED <<broken_filters, nthreads, text_cache, clip_text_cache, encodes, fn, cap_fails, ask>>

\* The caller has the result or the exception of its search; the thread is
\* free for the next search.
SearchReturn(t) ==
  /\ t <= nthreads
  /\ th[t].pc = "done"
  /\ ask.pc = "idle"
  /\ th' = [th EXCEPT ![t] = ThreadIdle]
  /\ UNCHANGED <<broken_filters, nthreads, text_cache, clip_text_cache, encodes, fn, cap_fails, ask>>

\* Variant: the registry starts empty.
InitHandler_empty ==
  /\ broken_filters = {}
  /\ th = [t \in Threads |-> ThreadIdle]
  /\ cap_fails = [k \in Keys |-> 0]
  /\ ask = AskIdle
  /\ fn = NoCall
  /\ text_cache = [k \in {} |-> None]
  /\ clip_text_cache = [k \in {} |-> None]
  /\ encodes = [text |-> [k \in Texts |-> [invoked |-> 0, returned |-> 0]], clip |-> [k \in Texts |-> [invoked |-> 0, returned |-> 0]]]

\* DatabaseHandler.__init__; the caches of RAGTools.__init__ are empty.
InitHandler ==
  /\ broken_filters = {"category"}
  /\ th = [t \in Threads |-> ThreadIdle]
  /\ cap_fails = [k \in Keys |-> 0]
  /\ ask = AskIdle
  /\ fn = NoCall
  /\ text_cache = [k \in {} |-> None]
  /\ clip_text_cache = [k \in {} |-> None]
  /\ encodes = [text |-> [k \in Texts |-> [invoked |-> 0, returned |-> 0]], clip |-> [k \in Texts |-> [invoked |-> 0, returned |-> 0]]]

\* One caller: the searches run one after the other.
InitDB == InitHandler /\ nthreads = 1

NextDB ==
  \E t \in Threads :
    \/ vector_search(t)
    \/ visual_search(t)
    \/ unified_search(t)
    \/ strict_visual_search(t)
    \/ CheckRegistry(t)
    \/ Attempt(t)
    \/ Learn(t)
    \/ Fallback(t)
    \/ SearchReturn(t)

SpecDB == InitDB /\ [][NextDB]_vars

\* Several callers: their searches interleave step by step.
InitConc == InitHandler /\ nthreads = NumThreads

\* The searches made concurrently: unified_search with the widest limit and a
\* filter on "brand", alone or with "page"; the backend answers every call
\* with an error or with one of a few lists.
ConcScope ==
  \A t \in Threads :
    /\ th[t].pc # "idle" =>
         /\ th[t].sp.limit = MaxLimit
         /\ th[t].filter \in { f \in Filters : DOMAIN f \in {{"brand"}, {"brand", "page"}} }
    /\ \A i \in DOMAIN th[t].resps :
         th[t].resps[i].ok => th[t].resps[i].docs \in {<<>>, <<1, 2>>, <<2, 3, 1>>}

NextConc ==
  \E t \in Threads :
    \/ unified_search(t) /\ ConcScope'
    \/ CheckRegistry(t) /\ ConcScope'
    \/ Attempt(t) /\ ConcScope'
    \/ Learn(t) /\ ConcScope'
    \/ Fallback(t) /\ ConcScope'
    \/ SearchReturn(t) /\ ConcScope'

SpecConc == InitConc /\ [][NextConc]_vars

\* ------------------------------------------------------------------- text
\* Strings are sequences of characters and a character is its code point
\* (ord): "a b" is <<97, 32, 98>>.  The tables below are those of the Unicode
\* database of the interpreter (Python 3.11).

\* The characters str.split() and str.strip() take for whitespace
\* (str.isspace): U+0009..U+000D, U+001C..U+0020, U+0085, U+00A0, U+1680,
\* U+2000..U+200A, U+2028, U+2029, U+202F, U+205F, U+3000.
Whitespace ==
  (9..13) \cup (28..32) \cup {133} \cup {160} \cup {5760} \cup (8192..8202) \cup (8232..8233) \cup {8239} \cup {8287} \cup {12288}

\* The decimal digits, the characters the \d of re and float() take for a
\* digit, with their values: ten consecutive characters from each of these
\* zeros on (48 is "0", 1632 the Arabic-Indic zero, ...).
Digits ==
  LET zeros ==
    {
     48, 1632, 1776, 1984, 2406, 2534, 2662, 2790, 2918, 3046, 3174, 3302, 3430, 3558, 3664,
     3792, 3872, 4160, 4240, 6112, 6160, 6470, 6608, 6784, 6800, 6992, 7088, 7232, 7248,
     42528, 43216, 43264, 43472, 43504, 43600, 44016, 65296, 66720, 68912, 69734, 69872,
     69942, 70096, 70384, 70736, 70864, 71248, 71360, 71472, 71904, 72016, 72784, 73040,
     73120, 92768, 92864, 93008, 120782, 120792, 120802, 120812, 120822, 123200, 123632,
     125264, 130032 }
  IN [c \in UNION { z..(z + 9) : z \in zeros } |->
        c - (CHOOSE z \in zeros : c \in z..(z + 9))]

\* str.lower() character by character: the characters it changes, each with
\* the character it becomes.  A run <<lo, hi, step, delta>> stands for the
\* characters lo, lo + step, ... up to hi, each lowered to itself + delta
\* (<<65, 90, 1, 32>> is A..Z).  U+0130 and U+03A3 are treated in LowerAt.
LowerCase ==
  LET runs ==
    {
     <<65, 90, 1, 32>>, <<192, 214, 1, 32>>, <<216, 222, 1, 32>>, <<256, 302, 2, 1>>, <<306,
     310, 2, 1>>, <<313, 327, 2, 1>>, <<330, 374, 2, 1>>, <<376, 376, 1, -121>>, <<377, 381,
     2, 1>>, <<385, 385, 1, 210>>, <<386, 388, 2, 1>>, <<390, 390, 1, 206>>, <<391, 391, 1,
     1>>, <<393, 394, 1, 205>>, <<395, 395, 1, 1>>, <<398, 398, 1, 79>>, <<399, 399, 1,
     202>>, <<400, 400, 1, 203>>, <<401, 401, 1, 1>>, <<403, 403, 1, 205>>, <<404, 404, 1,
     207>>, <<406, 406, 1, 211>>, <<407, 407, 1, 209>>, <<408, 408, 1, 1>>, <<412, 412, 1,
     211>>, <<413, 413, 1, 213>>, <<415, 415, 1, 214>>, <<416, 420, 2, 1>>, <<422, 422, 1,
     218>>, <<423, 423, 1, 1>>, <<425, 425, 1, 218>>, <<428, 428, 1, 1>>, <<430, 430, 1,
     218>>, <<431, 431, 1, 1>>, <<433, 434, 1, 217>>, <<435, 437, 2, 1>>, <<439, 439, 1,
     219>>, <<440, 440, 1, 1>>, <<444, 444, 1, 1>>, <<452, 452, 1, 2>>, <<453, 453, 1, 1>>,
     <<455, 455, 1, 2>>, <<456, 456, 1, 1>>, <<458, 458, 1, 2>>, <<459, 475, 2, 1>>, <<478,
     494, 2, 1>>, <<497, 497, 1, 2>>, <<498, 500, 2, 1>>, <<502, 502, 1, -97>>, <<503, 503,
     1, -56>>, <<504, 542, 2, 1>>, <<544, 544, 1, -130>>, <<546, 562, 2, 1>>, <<570, 570, 1,
     10795>>, <<571, 571, 1, 1>>, <<573, 573, 1, -163>>, <<574, 574, 1, 10792>>, <<577, 577,
     1, 1>>, <<579, 579, 1, -195>>, <<580, 580, 1, 69>>, <<581, 581, 1, 71>>, <<582, 590, 2,
     1>>, <<880, 882, 2, 1>>, <<886, 886, 1, 1>>, <<895, 895, 1, 116>>, <<902, 902, 1, 38>>,
     <<904, 906, 1, 37>>, <<908, 908, 1, 64>>, <<910, 911, 1, 63>>, <<913, 929, 1, 32>>,
     <<931, 939, 1, 32>>, <<975, 975, 1, 8>>, <<984, 1006, 2, 1>>, <<1012, 1012, 1, -60>>,
     <<1015, 1015, 1, 1>>, <<1017, 1017, 1, -7>>, <<1018, 1018, 1, 1>>, <<1021, 1023, 1,
     -130>>, <<1024, 1039, 1, 80>>, <<1040, 1071, 1, 32>>, <<1120, 1152, 2, 1>>, <<1162,
     1214, 2, 1>>, <<1216, 1216, 1, 15>>, <<1217, 1229, 2, 1>>, <<1232, 1326, 2, 1>>,
     <<1329, 1366, 1, 48>>, <<4256, 4293, 1, 7264>>, <<4295, 4295, 1, 7264>>, <<4301, 4301,
     1, 7264>>, <<5024, 5103, 1, 38864>>, <<5104, 5109, 1, 8>>, <<7312, 7354, 1, -3008>>,
     <<7357, 7359, 1, -3008>>, <<7680, 7828, 2, 1>>, <<7838, 7838, 1, -7615>>, <<7840, 7934,
     2, 1>>, <<7944, 7951, 1, -8>>, <<7960, 7965, 1, -8>>, <<7976, 7983, 1, -8>>, <<7992,
     7999, 1, -8>>, <<8008, 8013, 1, -8>>, <<8025, 8031, 2, -8>>, <<8040, 8047, 1, -8>>,
     <<8072, 8079, 1, -8>>, <<8088, 8095, 1, -8>>, <<8104, 8111, 1, -8>>, <<8120, 8121, 1,
     -8>>, <<8122, 8123, 1, -74>>, <<8124, 8124, 1, -9>>, <<8136, 8139, 1, -86>>, <<8140,
     8140, 1, -9>>, <<8152, 8153, 1, -8>>, <<8154, 8155, 1, -100>>, <<8168, 8169, 1, -8>>,
     <<8170, 8171, 1, -112>>, <<8172, 8172, 1, -7>>, <<8184, 8185, 1, -128>>, <<8186, 8187,
     1, -126>>, <<8188, 8188, 1, -9>>, <<8486, 8486, 1, -7517>>, <<8490, 8490, 1, -8383>>,
     <<8491, 8491, 1, -8262>>, <<8498, 8498, 1, 28>>, <<8544, 8559, 1, 16>>, <<8579, 8579,
     1, 1>>, <<9398, 9423, 1, 26>>, <<11264, 11311, 1, 48>>, <<11360, 11360, 1, 1>>,
     <<11362, 11362, 1, -10743>>, <<11363, 11363, 1, -3814>>, <<11364, 11364, 1, -10727>>,
     <<11367, 11371, 2, 1>>, <<11373, 11373, 1, -10780>>, <<11374, 11374, 1, -10749>>,
     <<11375, 11375, 1, -10783>>, <<11376, 11376, 1, -10782>>, <<11378, 11378, 1, 1>>,
     <<11381, 11381, 1, 1>>, <<11390, 11391, 1, -10815>>, <<11392, 11490, 2, 1>>, <<11499,
     11501, 2, 1>>, <<11506, 11506, 1, 1>>, <<42560, 42604, 2, 1>>, <<42624, 42650, 2, 1>>,
     <<42786, 42798, 2, 1>>, <<42802, 42862, 2, 1>>, <<42873, 42875, 2, 1>>, <<42877, 42877,
     1, -35332>>, <<42878, 42886, 2, 1>>, <<42891, 42891, 1, 1>>, <<42893, 42893, 1,
     -42280>>, <<42896, 42898, 2, 1>>, <<42902, 42920, 2, 1>>, <<42922, 42922, 1, -42308>>,
     <<42923, 42923, 1, -42319>>, <<42924, 42924, 1, -42315>>, <<42925, 42925, 1, -42305>>,
     <<42926, 42926, 1, -42308>>, <<42928, 42928, 1, -42258>>, <<42929, 42929, 1, -42282>>,
     <<42930, 42930, 1, -42261>>, <<42931, 42931, 1, 928>>, <<42932, 42946, 2, 1>>, <<42948,
     42948, 1, -48>>, <<42949, 42949, 1, -42307>>, <<42950, 42950, 1, -35384>>, <<42951,
     42953, 2, 1>>, <<42960, 42960, 1, 1>>, <<42966, 42968, 2, 1>>, <<42997, 42997, 1, 1>>,
     <<65313, 65338, 1, 32>>, <<66560, 66599, 1, 40>>, <<66736, 66771, 1, 40>>, <<66928,
     66964, 2, 39>>, <<66929, 66937, 2, 39>>, <<66941, 66953, 2, 39>>, <<66957, 66961, 2,
     39>>, <<66965, 66965, 1, 39>>, <<68736, 68786, 1, 64>>, <<71840, 71871, 1, 32>>,
     <<93760, 93791, 1, 32>>, <<125184, 125217, 1, 34>> }
      Run(r) == { r[1] + r[3] * n : n \in 0..((r[2] - r[1]) \div r[3]) }
  IN [c \in UNION { Run(r) : r \in runs } |->
        c + (CHOOSE r \in runs : c \in Run(r))[4]]

\* The case-ignorable characters (accents, apostrophe, full stop, ...): they
\* are passed over when lower() looks for the letters around a capital sigma.
CaseIgnorable ==
  UNION { r[1]..r[2] : r \in
    {
     <<39, 39>>, <<46, 46>>, <<58, 58>>, <<94, 94>>, <<96, 96>>, <<168, 168>>, <<173, 173>>,
     <<175, 175>>, <<180, 180>>, <<183, 184>>, <<688, 879>>, <<884, 885>>, <<890, 890>>,
     <<900, 901>>, <<903, 903>>, <<1155, 1161>>, <<1369, 1369>>, <<1375, 1375>>, <<1425,
     1469>>, <<1471, 1471>>, <<1473, 1474>>, <<1476, 1477>>, <<1479, 1479>>, <<1524, 1524>>,
     <<1536, 1541>>, <<1552, 1562>>, <<1564, 1564>>, <<1600, 1600>>, <<1611, 1631>>, <<1648,
     1648>>, <<1750, 1757>>, <<1759, 1768>>, <<1770, 1773>>, <<1807, 1807>>, <<1809, 1809>>,
     <<1840, 1866>>, <<1958, 1968>>, <<2027, 2037>>, <<2042, 2042>>, <<2045, 2045>>, <<2070,
     2093>>, <<2137, 2139>>, <<2184, 2184>>, <<2192, 2193>>, <<2200, 2207>>, <<2249, 2306>>,
     <<2362, 2362>>, <<2364, 2364>>, <<2369, 2376>>, <<2381, 2381>>, <<2385, 2391>>, <<2402,
     2403>>, <<2417, 2417>>, <<2433, 2433>>, <<2492, 2492>>, <<2497, 2500>>, <<2509, 2509>>,
     <<2530, 2531>>, <<2558, 2558>>, <<2561, 2562>>, <<2620, 2620>>, <<2625, 2626>>, <<2631,
     2632>>, <<2635, 2637>>, <<2641, 2641>>, <<2672, 2673>>, <<2677, 2677>>, <<2689, 2690>>,
     <<2748, 2748>>, <<2753, 2757>>, <<2759, 2760>>, <<2765, 2765>>, <<2786, 2787>>, <<2810,
     2815>>, <<2817, 2817>>, <<2876, 2876>>, <<2879, 2879>>, <<2881, 2884>>, <<2893, 2893>>,
     <<2901, 2902>>, <<2914, 2915>>, <<2946, 2946>>, <<3008, 3008>>, <<3021, 3021>>, <<3072,
     3072>>, <<3076, 3076>>, <<3132, 3132>>, <<3134, 3136>>, <<3142, 3144>>, <<3146, 3149>>,
     <<3157, 3158>>, <<3170, 3171>>, <<3201, 3201>>, <<3260, 3260>>, <<3263, 3263>>, <<3270,
     3270>>, <<3276, 3277>>, <<3298, 3299>>, <<3328, 3329>>, <<3387, 3388>>, <<3393, 3396>>,
     <<3405, 3405>>, <<3426, 3427>>, <<3457, 3457>>, <<3530, 3530>>, <<3538, 3540>>, <<3542,
     3542>>, <<3633, 3633>>, <<3636, 3642>>, <<3654, 3662>>, <<3761, 3761>>, <<3764, 3772>>,
     <<3782, 3782>>, <<3784, 3789>>, <<3864, 3865>>, <<3893, 3893>>, <<3895, 3895>>, <<3897,
     3897>>, <<3953, 3966>>, <<3968, 3972>>, <<3974, 3975>>, <<3981, 3991>>, <<3993, 4028>>,
     <<4038, 4038>>, <<4141, 4144>>, <<4146, 4151>>, <<4153, 4154>>, <<4157, 4158>>, <<4184,
     4185>>, <<4190, 4192>>, <<4209, 4212>>, <<4226, 4226>>, <<4229, 4230>>, <<4237, 4237>>,
     <<4253, 4253>>, <<4348, 4348>>, <<4957, 4959>>, <<5906, 5908>>, <<5938, 5939>>, <<5970,
     5971>>, <<6002, 6003>>, <<6068, 6069>>, <<6071, 6077>>, <<6086, 6086>>, <<6089, 6099>>,
     <<6103, 6103>>, <<6109, 6109>>, <<6155, 6159>>, <<6211, 6211>>, <<6277, 6278>>, <<6313,
     6313>>, <<6432, 6434>>, <<6439, 6440>>, <<6450, 6450>>, <<6457, 6459>>, <<6679, 6680>>,
     <<6683, 6683>>, <<6742, 6742>>, <<6744, 6750>>, <<6752, 6752>>, <<6754, 6754>>, <<6757,
     6764>>, <<6771, 6780>>, <<6783, 6783>>, <<6823, 6823>>, <<6832, 6862>>, <<6912, 6915>>,
     <<6964, 6964>>, <<6966, 6970>>, <<6972, 6972>>, <<6978, 6978>>, <<7019, 7027>>, <<7040,
     7041>>, <<7074, 7077>>, <<7080, 7081>>, <<7083, 7085>>, <<7142, 7142>>, <<7144, 7145>>,
     <<7149, 7149>>, <<7151, 7153>>, <<7212, 7219>>, <<7222, 7223>>, <<7288, 7293>>, <<7376,
     7378>>, <<7380, 7392>>, <<7394, 7400>>, <<7405, 7405>>, <<7412, 7412>>, <<7416, 7417>>,
     <<7468, 7530>>, <<7544, 7544>>, <<7579, 7679>>, <<8125, 8125>>, <<8127, 8129>>, <<8141,
     8143>>, <<8157, 8159>>, <<8173, 8175>>, <<8189, 8190>>, <<8203, 8207>>, <<8216, 8217>>,
     <<8228, 8228>>, <<8231, 8231>>, <<8234, 8238>>, <<8288, 8292>>, <<8294, 8303>>, <<8305,
     8305>>, <<8319, 8319>>, <<8336, 8348>>, <<8400, 8432>>, <<11388, 11389>>, <<11503,
     11505>>, <<11631, 11631>>, <<11647, 11647>>, <<11744, 11775>>, <<11823, 11823>>,
     <<12293, 12293>>, <<12330, 12333>>, <<12337, 12341>>, <<12347, 12347>>, <<12441,
     12446>>, <<12540, 12542>>, <<40981, 40981>>, <<42232, 42237>>, <<42508, 42508>>,
     <<42607, 42610>>, <<42612, 42621>>, <<42623, 42623>>, <<42652, 42655>>, <<42736,
     42737>>, <<42752, 42785>>, <<42864, 42864>>, <<42888, 42890>>, <<42994, 42996>>,
     <<43000, 43001>>, <<43010, 43010>>, <<43014, 43014>>, <<43019, 43019>>, <<43045,
     43046>>, <<43052, 43052>>, <<43204, 43205>>, <<43232, 43249>>, <<43263, 43263>>,
     <<43302, 43309>>, <<43335, 43345>>, <<43392, 43394>>, <<43443, 43443>>, <<43446,
     43449>>, <<43452, 43453>>, <<43471, 43471>>, <<43493, 43494>>, <<43561, 43566>>,
     <<43569, 43570>>, <<43573, 43574>>, <<43587, 43587>>, <<43596, 43596>>, <<43632,
     43632>>, <<43644, 43644>>, <<43696, 43696>>, <<43698, 43700>>, <<43703, 43704>>,
     <<43710, 43711>>, <<43713, 43713>>, <<43741, 43741>>, <<43756, 43757>>, <<43763,
     43764>>, <<43766, 43766>>, <<43867, 43871>>, <<43881, 43883>>, <<44005, 44005>>,
     <<44008, 44008>>, <<44013, 44013>>, <<64286, 64286>>, <<64434, 64450>>, <<65024,
     65039>>, <<65043, 65043>>, <<65056, 65071>>, <<65106, 65106>>, <<65109, 65109>>,
     <<65279, 65279>>, <<65287, 65287>>, <<65294, 65294>>, <<65306, 65306>>, <<65342,
     65342>>, <<65344, 65344>>, <<65392, 65392>>, <<65438, 65439>>, <<65507, 65507>>,
     <<65529, 65531>>, <<66045, 66045>>, <<66272, 66272>>, <<66422, 66426>>, <<67456,
     67461>>, <<67463, 67504>>, <<67506, 67514>>, <<68097, 68099>>, <<68101, 68102>>,
     <<68108, 68111>>, <<68152, 68154>>, <<68159, 68159>>, <<68325, 68326>>, <<68900,
     68903>>, <<69291, 69292>>, <<69446, 69456>>, <<69506, 69509>>, <<69633, 69633>>,
     <<69688, 69702>>, <<69744, 69744>>, <<69747, 69748>>, <<69759, 69761>>, <<69811,
     69814>>, <<69817, 69818>>, <<69821, 69821>>, <<69826, 69826>>, <<69837, 69837>>,
     <<69888, 69890>>, <<69927, 69931>>, <<69933, 69940>>, <<70003, 70003>>, <<70016,
     70017>>, <<70070, 70078>>, <<70089, 70092>>, <<70095, 70095>>, <<70191, 70193>>,
     <<70196, 70196>>, <<70198, 70199>>, <<70206, 70206>>, <<70367, 70367>>, <<70371,
     70378>>, <<70400, 70401>>, <<70459, 70460>>, <<70464, 70464>>, <<70502, 70508>>,
     <<70512, 70516>>, <<70712, 70719>>, <<70722, 70724>>, <<70726, 70726>>, <<70750,
     70750>>, <<70835, 70840>>, <<70842, 70842>>, <<70847, 70848>>, <<70850, 70851>>,
     <<71090, 71093>>, <<71100, 71101>>, <<71103, 71104>>, <<71132, 71133>>, <<71219,
     71226>>, <<71229, 71229>>, <<71231, 71232>>, <<71339, 71339>>, <<71341, 71341>>,
     <<71344, 71349>>, <<71351, 71351>>, <<71453, 71455>>, <<71458, 71461>>, <<71463,
     71467>>, <<71727, 71735>>, <<71737, 71738>>, <<71995, 71996>>, <<71998, 71998>>,
     <<72003, 72003>>, <<72148, 72151>>, <<72154, 72155>>, <<72160, 72160>>, <<72193,
     72202>>, <<72243, 72248>>, <<72251, 72254>>, <<72263, 72263>>, <<72273, 72278>>,
     <<72281, 72283>>, <<72330, 72342>>, <<72344, 72345>>, <<72752, 72758>>, <<72760,
     72765>>, <<72767, 72767>>, <<72850, 72871>>, <<72874, 72880>>, <<72882, 72883>>,
     <<72885, 72886>>, <<73009, 73014>>, <<73018, 73018>>, <<73020, 73021>>, <<73023,
     73029>>, <<73031, 73031>>, <<73104, 73105>>, <<73109, 73109>>, <<73111, 73111>>,
     <<73459, 73460>>, <<78896, 78904>>, <<92912, 92916>>, <<92976, 92982>>, <<92992,
     92995>>, <<94031, 94031>>, <<94095, 94111>>, <<94176, 94177>>, <<94179, 94180>>,
     <<110576, 110579>>, <<110581, 110587>>, <<110589, 110590>>, <<113821, 113822>>,
     <<113824, 113827>>, <<118528, 118573>>, <<118576, 118598>>, <<119143, 119145>>,
     <<119155, 119170>>, <<119173, 119179>>, <<119210, 119213>>, <<119362, 119364>>,
     <<121344, 121398>>, <<121403, 121452>>, <<121461, 121461>>, <<121476, 121476>>,
     <<121499, 121503>>, <<121505, 121519>>, <<122880, 122886>>, <<122888, 122904>>,
     <<122907, 122913>>, <<122915, 122916>>, <<122918, 122922>>, <<123184, 123197>>,
     <<123566, 123566>>, <<123628, 123631>>, <<125136, 125142>>, <<125252, 125259>>,
     <<127995, 127999>>, <<917505, 917505>>, <<917536, 917631>>, <<917760, 917999>> } }

\* The cased characters (letters with a case) that are not case-ignorable.
Cased ==
  UNION { r[1]..r[2] : r \in
    {
     <<65, 90>>, <<97, 122>>, <<170, 170>>, <<181, 181>>, <<186, 186>>, <<192, 214>>, <<216,
     246>>, <<248, 442>>, <<444, 447>>, <<452, 659>>, <<661, 687>>, <<880, 883>>, <<886,
     887>>, <<891, 893>>, <<895, 895>>, <<902, 902>>, <<904, 906>>, <<908, 908>>, <<910,
     929>>, <<931, 1013>>, <<1015, 1153>>, <<1162, 1327>>, <<1329, 1366>>, <<1376, 1416>>,
     <<4256, 4293>>, <<4295, 4295>>, <<4301, 4301>>, <<4304, 4346>>, <<4349, 4351>>, <<5024,
     5109>>, <<5112, 5117>>, <<7296, 7304>>, <<7312, 7354>>, <<7357, 7359>>, <<7424, 7467>>,
     <<7531, 7543>>, <<7545, 7578>>, <<7680, 7957>>, <<7960, 7965>>, <<7968, 8005>>, <<8008,
     8013>>, <<8016, 8023>>, <<8025, 8025>>, <<8027, 8027>>, <<8029, 8029>>, <<8031, 8061>>,
     <<8064, 8116>>, <<8118, 8124>>, <<8126, 8126>>, <<8130, 8132>>, <<8134, 8140>>, <<8144,
     8147>>, <<8150, 8155>>, <<8160, 8172>>, <<8178, 8180>>, <<8182, 8188>>, <<8450, 8450>>,
     <<8455, 8455>>, <<8458, 8467>>, <<8469, 8469>>, <<8473, 8477>>, <<8484, 8484>>, <<8486,
     8486>>, <<8488, 8488>>, <<8490, 8493>>, <<8495, 8500>>, <<8505, 8505>>, <<8508, 8511>>,
     <<8517, 8521>>, <<8526, 8526>>, <<8544, 8575>>, <<8579, 8580>>, <<9398, 9449>>,
     <<11264, 11387>>, <<11390, 11492>>, <<11499, 11502>>, <<11506, 11507>>, <<11520,
     11557>>, <<11559, 11559>>, <<11565, 11565>>, <<42560, 42605>>, <<42624, 42651>>,
     <<42786, 42863>>, <<42865, 42887>>, <<42891, 42894>>, <<42896, 42954>>, <<42960,
     42961>>, <<42963, 42963>>, <<42965, 42969>>, <<42997, 42998>>, <<43002, 43002>>,
     <<43824, 43866>>, <<43872, 43880>>, <<43888, 43967>>, <<64256, 64262>>, <<64275,
     64279>>, <<65313, 65338>>, <<65345, 65370>>, <<66560, 66639>>, <<66736, 66771>>,
     <<66776, 66811>>, <<66928, 66938>>, <<66940, 66954>>, <<66956, 66962>>, <<66964,
     66965>>, <<66967, 66977>>, <<66979, 66993>>, <<66995, 67001>>, <<67003, 67004>>,
     <<68736, 68786>>, <<68800, 68850>>, <<71840, 71903>>, <<93760, 93823>>, <<119808,
     119892>>, <<119894, 119964>>, <<119966, 119967>>, <<119970, 119970>>, <<119973,
     119974>>, <<119977, 119980>>, <<119982, 119993>>, <<119995, 119995>>, <<119997,
     120003>>, <<120005, 120069>>, <<120071, 120074>>, <<120077, 120084>>, <<120086,
     120092>>, <<120094, 120121>>, <<120123, 120126>>, <<120128, 120132>>, <<120134,
     120134>>, <<120138, 120144>>, <<120146, 120485>>, <<120488, 120512>>, <<120514,
     120538>>, <<120540, 120570>>, <<120572, 120596>>, <<120598, 120628>>, <<120630,
     120654>>, <<120656, 120686>>, <<120688, 120712>>, <<120714, 120744>>, <<120746,
     120770>>, <<120772, 120779>>, <<122624, 122633>>, <<122635, 122654>>, <<125184,
     125251>>, <<127280, 127305>>, <<127312, 127337>>, <<127344, 127369>> } }

\* str.lower() at position i: the capital sigma (931) becomes the final sigma
\* (962) when a cased character comes before it and none after it,
\* case-ignorable characters passed over on both sides, and the small sigma
\* (963) otherwise; U+0130 becomes "i" and U+0307; a character of the table
\* becomes its entry, and every other character stays.
LowerAt(s, i) ==
  LET before == { j \in 1..(i - 1) : s[j] \notin CaseIgnorable }
      after == { j \in (i + 1)..Len(s) : s[j] \notin CaseIgnorable }
      final == /\ before # {}
               /\ s[CHOOSE j \in before : \A m \in before : m <= j] \in Cased
               /\ \/ after = {}
                  \/ s[CHOOSE j \in after : \A m \in after : j <= m] \notin Cased
  IN IF s[i] = 931 THEN <<IF final THEN 962 ELSE 963>>
     ELSE IF s[i] = 304 THEN <<105, 775>>
     ELSE IF s[i] \in DOMAIN LowerCase THEN <<LowerCase[s[i]]>>
     ELSE <<s[i]>>

\* The concatenation of a sequence of sequences.
RECURSIVE Flatten(_)
Flatten(lists) == IF lists = <<>> THEN <<>> ELSE Head(lists) \o Flatten(Tail(lists))

\* str.lower()
Lower(s) == Flatten([i \in DOMAIN s |-> LowerAt(s, i)])

\* `k in s` for strings
IsSubstring(k, s) ==
  \E i \in 1..(Len(s) - Len(k) + 1) : SubSeq(s, i, i + Len(k) - 1) = k

\* str.strip()
RECURSIVE LStrip(_)
LStrip(s) ==
  IF s # <<>> /\ Head(s) \in Whitespace THEN LStrip(Tail(s)) ELSE s

RECURSIVE RStrip(_)
RStrip(s) ==
  IF s # <<>> /\ s[Len(s)] \in Whitespace THEN RStrip(SubSeq(s, 1, Len(s) - 1)) ELSE s

Strip(s) == RStrip(LStrip(s))

\* str.split(sep) for a one-character separator: the pieces between separators.
RECURSIVE SplitOn(_, _)
SplitOn(s, sep) ==
  IF \E i \in DOMAIN s : s[i] = sep
  THEN LET i == CHOOSE j \in DOMAIN s : s[j] = sep /\ \A m \in 1..(j - 1) : s[m] # sep
       IN <<SubSeq(s, 1, i - 1)>> \o SplitOn(SubSeq(s, i + 1, Len(s)), sep)
  ELSE <<s>>

\* [x.strip() for x in res.split(sep) if x.strip()]
StrippedParts(res, sep) ==
  LET parts == SplitOn(res, sep)
      stripped == [i \in DOMAIN parts |-> Strip(parts[i])]
  IN SelectSeq(stripped, LAMBDA p : p # <<>>)

\* len(question.split()): the number of whitespace-separated words
WordCount(s) ==
  Cardinality({ i \in DOMAIN s :
                  /\ s[i] \notin Whitespace
                  /\ (i = 1 \/ s[i - 1] \in Whitespace) })

\* sep.join(parts)
RECURSIVE Join(_, _)
Join(parts, sep) ==
  IF parts = <<>> THEN <<>>
  ELSE IF Len(parts) = 1 THEN parts[1]
  ELSE parts[1] \o sep \o Join(Tail(parts), sep)

\* str.replace('"', ''): 34 is the double quote
RemoveQuotes(s) == SelectSeq(s, LAMBDA c : c # 34)

\* The keywords of _detect_category.
Keywords ==
  << <<99, 97, 114>>,
     <<118, 101, 104, 105, 99, 108, 101>>,
     <<101, 110, 103, 105, 110, 101>>,
     <<115, 112, 101, 101, 100>>,
     <<115, 97, 102, 101, 116, 121>>,
     <<108, 117, 120, 117, 114, 121>>,
     <<115, 117, 118>>,
     <<115, 101, 100, 97, 110>>,
     <<119, 114, 101, 110, 99, 104>>,
     <<115, 111, 108, 100, 101, 114, 105, 110, 103>>,
     <<112, 110, 101, 117, 109, 97, 116, 105, 99>>,
     <<119, 105, 114, 105, 110, 103>>,
     <<101, 108, 101, 99, 116, 114, 105, 99, 97, 108>> >>

\* _detect_category
detect_category(question) ==
  IF \E i \in DOMAIN Keywords : IsSubstring(Keywords[i], Lower(question))
  THEN "automotive" ELSE None

\* re.findall(r"0\.\d+|1\.0", res): where the first match starts, 0 if none
\* (48 is "0", 49 is "1", 46 is ".").
MatchesAt(res, i) ==
  \/ /\ i + 2 <= Len(res)
     /\ res[i] = 48 /\ res[i + 1] = 46 /\ res[i + 2] \in DOMAIN Digits
  \/ /\ i + 2 <= Len(res)
     /\ res[i] = 49 /\ res[i + 1] = 46 /\ res[i + 2] = 48

FirstMatch(res) ==
  IF \E i \in DOMAIN res : MatchesAt(res, i)
  THEN CHOOSE i \in DOMAIN res : MatchesAt(res, i) /\ \A j \in 1..(i - 1) : ~MatchesAt(res, j)
  ELSE 0

\* The values of the digits \d+ matched after "0." from position i on (greedy).
RECURSIVE DigitRun(_, _)
DigitRun(res, i) ==
  IF i <= Len(res) /\ res[i] \in DOMAIN Digits
  THEN <<Digits[res[i]]>> \o DigitRun(res, i + 1)
  ELSE <<>>

\* A score is the float that float() reads from a decimal of [0, 1]: it is
\* kept as that decimal, the unit and the digits after the point up to the
\* last one that is not 0.  float() rounds to the nearest binary64 and never
\* reverses the order of two decimals, so a comparison of floats is decided
\* on the decimals.
Score(unit, frac) ==
  LET nonzero == { i \in DOMAIN frac : frac[i] # 0 }
      last == IF nonzero = {} THEN 0 ELSE CHOOSE i \in nonzero : \A j \in nonzero : j <= i
  IN [unit |-> unit, frac |-> SubSeq(frac, 1, last)]

ScoreDefault == Score(0, <<5>>)
ScoreEmptyContext == Score(0, <<>>)

\* a < b for two decimal fractions: at the first decimal where they differ
DecimalLess(a, b) ==
  LET At(ds, i) == IF i <= Len(ds) THEN ds[i] ELSE 0
  IN \E i \in 1..(Len(a) + Len(b)) :
       /\ At(a, i) < At(b, i)
       /\ \A j \in 1..(i - 1) : At(a, j) = At(b, j)

\* The literal 0.7 is the binary64 6305039478318694 / 2^53.  A decimal is read
\* as a float below it exactly when it lies below the middle between that
\* float and the float before it, 12610078956637387 / 2^54: these are the 54
\* decimals of the middle (a decimal in the middle itself is rounded to the
\* even mantissa, which is that of 0.7).
CorrectiveThreshold ==
  <<6, 9, 9, 9, 9, 9, 9, 9, 9, 9, 9, 9, 9, 9, 9, 9, 0, 0, 0, 7, 9, 9, 2, 7, 7, 8, 3, 7,
    3, 5, 9, 1, 1, 3, 6, 1, 8, 7, 3, 1, 4, 9, 8, 7, 1, 8, 2, 6, 1, 7, 1, 8, 7, 5>>

\* score < 0.7, both binary64
BelowThreshold(score) == score.unit = 0 /\ DecimalLess(score.frac, CorrectiveThreshold)

\* float(scores[0]) if scores else 0.5
ParseScore(res) ==
  LET i == FirstMatch(res) IN
  IF i = 0 THEN ScoreDefault
  ELSE IF res[i] = 49 THEN Score(1, <<>>)
  ELSE Score(0, DigitRun(res, i + 2))

\* ------------------------------------------------------- document content
\* d.get("combined_text", ""): every third document stores no text.
CombinedText(d) == IF d % 3 = 0 THEN <<>> ELSE <<116>>

\* "\n\n".join([d.get("combined_text", "") for d in docs])
Context(docs) ==
  Join([i \in DOMAIN docs |-> CombinedText(docs[i])], <<10, 10>>)

\* d.get("embedding", []): the second document stores no embedding.
HasEmbedding(d) == d % 4 # 2

\* Cosine similarity of the question's embedding and the document's, as an
\* integer grade (the embedding model is outside the orchestrator).
TextSim(question, d) == (Len(question) + 3 * d) % 5

\* An image of a document: its path, whether it stores a clip_embedding, and
\* the cosine similarity of that embedding to the query in units of 0.0001.
Image(path, emb, sim) == [path |-> path, emb |-> emb, sim |-> sim]

\* doc["related_images"]; <<>> also stands for a document without the key.
RelatedImages(d) ==
  CASE d % 4 = 1 -> <<Image("a.png", TRUE, 2700), Image("b.png", TRUE, 2000)>>
    [] d % 4 = 2 -> <<Image("b.png", TRUE, 2000), Image("c.png", TRUE, 2500),
                      Image("d.png", FALSE, 0)>>
    [] d % 4 = 3 -> <<>>
    [] OTHER     -> <<Image(None, TRUE, 9000), Image("", TRUE, 9000),
                      Image("e.png", TRUE, 1800)>>

\* ------------------------------------------------------------ pure helpers
\* list.sort(key=score, reverse=True) / sorted(..., reverse=True): stable,
\* descending by the field score.
InsertDesc(sorted, x) ==
  LET n == Cardinality({ i \in DOMAIN sorted : sorted[i].score >= x.score })
  IN SubSeq(sorted, 1, n) \o <<x>> \o SubSeq(sorted, n + 1, Len(sorted))

RECURSIVE SortDesc(_)
SortDesc(s) ==
  IF s = <<>> THEN <<>>
  ELSE InsertDesc(SortDesc(SubSeq(s, 1, Len(s) - 1)), s[Len(s)])

\* Variant: nothing is removed.
deduplicate_docs_keepall(docs) == docs

\* Variant: a later document with a known _id replaces the one kept.
RECURSIVE deduplicate_docs_last(_)
deduplicate_docs_last(docs) ==
  IF docs = <<>> THEN <<>>
  ELSE LET front == deduplicate_docs_last(SubSeq(docs, 1, Len(docs) - 1))
           d == docs[Len(docs)]
       IN IF \E i \in DOMAIN front : DocId(front[i]) = DocId(d)
          THEN [i \in DOMAIN front |-> IF DocId(front[i]) = DocId(d) THEN d ELSE front[i]]
          ELSE Append(front, d)

\* Variant: a new document is put at the front of the output.
RECURSIVE deduplicate_docs_front(_)
deduplicate_docs_front(docs) ==
  IF docs = <<>> THEN <<>>
  ELSE LET front == deduplicate_docs_front(SubSeq(docs, 1, Len(docs) - 1))
           d == docs[Len(docs)]
       IN IF \E i \in DOMAIN front : DocId(front[i]) = DocId(d)
          THEN front ELSE <<d>> \o front

\* _deduplicate_docs: a document is kept when no earlier one has its _id.
RECURSIVE deduplicate_docs(_)
deduplicate_docs(docs) ==
  IF docs = <<>> THEN <<>>
  ELSE LET front == deduplicate_docs(SubSeq(docs, 1, Len(docs) - 1))
           d == docs[Len(docs)]
       IN IF \E i \in DOMAIN front : DocId(front[i]) = DocId(d)
          THEN front ELSE Append(front, d)

\* Variant: documents without embedding are ranked last instead of skipped.
rerank_by_relevance_last(question, docs, top_k) ==
  LET scored == [i \in DOMAIN docs |->
                   [score |-> IF HasEmbedding(docs[i]) THEN TextSim(question, docs[i]) ELSE -1,
                    d |-> docs[i]]]
      ranked == Take(SortDesc(scored), top_k)
  IN [i \in DOMAIN ranked |-> ranked[i].d]

\* _rerank_by_relevance: documents without embedding are skipped, the others
\* sorted by similarity to the question and cut to top_k.
rerank_by_relevance(question, docs, top_k) ==
  LET with_emb == SelectSeq(docs, HasEmbedding)
      scored == [i \in DOMAIN with_emb |->
                   [score |-> TextSim(question, with_emb[i]), d |-> with_emb[i]]]
      ranked == Take(SortDesc(scored), top_k)
  IN [i \in DOMAIN ranked |-> ranked[i].d]

\* ---------------------------------------------------------------- floats
\* Python floats (IEEE 754 binary64) in the range the fused scores live in:
\* a value v, 0 <= v < 1, that is a multiple of 2^-60, held as the integer
\* v * 2^60 in three limbs of 20 bits.  Every 1.0 / d with 2 <= d <= 128 and
\* every sum of such values below 1 is of this form.
Limb == 1048576

Float(h, m, l) == [h |-> h, m |-> m, l |-> l]

FloatZero == Float(0, 0, 0)

RECURSIVE BitLen(_)
BitLen(n) == IF n = 0 THEN 0 ELSE 1 + BitLen(n \div 2)

RECURSIVE Pow2(_)
Pow2(n) == IF n = 0 THEN 1 ELSE 2 * Pow2(n - 1)

\* The limbs of a number given with limbs that may have overflowed by a carry.
Carry(h, m, l) ==
  LET m1 == m + l \div Limb IN Float(h + m1 \div Limb, m1 % Limb, l % Limb)

\* Rounding to the 53 significant bits of a binary64, to nearest, ties to even.
\* `sticky' tells that the exact value lies strictly above x (by less than one
\* unit of 2^-60).
RoundTo53(x, sticky) ==
  LET s == BitLen(x.h) - 13 IN
  IF s <= 0 THEN x
  ELSE LET p == Pow2(s)
           low == x.l % p
           half == p \div 2
           odd == (x.l \div p) % 2 = 1
           up == \/ low > half
                 \/ low = half /\ (sticky \/ odd)
       IN Carry(x.h, x.m, x.l - low + (IF up THEN p ELSE 0))

\* 1.0 / d: the correctly rounded quotient, by long division of 2^60.
FloatRecip(d) ==
  LET qh == Limb \div d
      r1 == Limb % d
      qm == (r1 * Limb) \div d
      r2 == (r1 * Limb) % d
      ql == (r2 * Limb) \div d
      r3 == (r2 * Limb) % d
  IN RoundTo53(Float(qh, qm, ql), r3 # 0)

\* x + y: the exact sum, rounded.
FloatAdd(x, y) == RoundTo53(Carry(x.h + y.h, x.m + y.m, x.l + y.l), FALSE)

\* x >= y
FloatGeq(x, y) ==
  \/ x.h > y.h
  \/ x.h = y.h /\ x.m > y.m
  \/ x.h = y.h /\ x.m = y.m /\ x.l >= y.l

\* Variant: an element is put before the elements of equal score.
InsertDescFloat_unstable(sorted, x) ==
  LET n == Cardinality({ i \in DOMAIN sorted : ~FloatGeq(x.score, sorted[i].score) })
  IN SubSeq(sorted, 1, n) \o <<x>> \o SubSeq(sorted, n + 1, Len(sorted))

\* sorted(..., key=score, reverse=True) on float scores: stable, descending.
InsertDescFloat(sorted, x) ==
  LET n == Cardinality({ i \in DOMAIN sorted : FloatGeq(sorted[i].score, x.score) })
  IN SubSeq(sorted, 1, n) \o <<x>> \o SubSeq(sorted, n + 1, Len(sorted))

RECURSIVE SortDescFloat(_)
SortDescFloat(s) ==
  IF s = <<>> THEN <<>>
  ELSE InsertDescFloat(SortDescFloat(SubSeq(s, 1, Len(s) - 1)), s[Len(s)])

\* ------------------------------------------------- reciprocal rank fusion
\* Variant: ranks grow towards the end of a list.
Denominators_reverse(results_lists, doc_id, k) ==
  Flatten([i \in DOMAIN results_lists |->
             SelectSeq([r \in DOMAIN results_lists[i] |->
                          IF DocId(results_lists[i][r]) = doc_id THEN k - (r - 1) ELSE 0],
                       LAMBDA x : x # 0)])

\* rank + k of every entry of doc_id, in the order the two loops meet them
Denominators(results_lists, doc_id, k) ==
  Flatten([i \in DOMAIN results_lists |->
             SelectSeq([r \in DOMAIN results_lists[i] |->
                          IF DocId(results_lists[i][r]) = doc_id THEN (r - 1) + k ELSE 0],
                       LAMBDA x : x # 0)])

\* Variant: only the first entry of a document counts.
Accumulate_first(acc, ds) ==
  IF ds = <<>> THEN acc ELSE FloatAdd(acc, FloatRecip(Head(ds)))

\* fused_scores[doc_id] += 1.0 / (rank + k), entry after entry
RECURSIVE Accumulate(_, _)
Accumulate(acc, ds) ==
  IF ds = <<>> THEN acc
  ELSE Accumulate(FloatAdd(acc, FloatRecip(Head(ds))), Tail(ds))

\* fused_scores[doc_id] after the loops
fused_scores(results_lists, doc_id, k) ==
  Accumulate(FloatZero, Denominators(results_lists, doc_id, k))

\* doc_store[doc_id] after the loops: the last document met with that id
doc_store(results_lists, doc_id) ==
  LET all == Flatten(results_lists)
      last == CHOOSE i \in DOMAIN all :
                /\ DocId(all[i]) = doc_id
                /\ \A j \in DOMAIN all : DocId(all[j]) = doc_id => j <= i
  IN all[last]

RrfK == 60

\* Variant: every entry is ranked on its own, nothing is merged by _id.
reciprocal_rank_fusion_entries(results_lists, limit, k) ==
  LET all == Flatten(results_lists)
      items == [i \in DOMAIN all |->
                  [score |-> fused_scores(results_lists, DocId(all[i]), k), d |-> all[i]]]
      ranked == Take(SortDescFloat(items), limit)
  IN [i \in DOMAIN ranked |-> ranked[i].d]

\* _reciprocal_rank_fusion: the identifiers in the order of their first
\* encounter (the insertion order of the dict), sorted by fused score, cut.
reciprocal_rank_fusion(results_lists, limit, k) ==
  LET first == deduplicate_docs(Flatten(results_lists))
      items == [i \in DOMAIN first |->
                  [score |-> fused_scores(results_lists, DocId(first[i]), k),
                   d |-> DocId(first[i])]]
      ranked_ids == Take(SortDescFloat(items), limit)
  IN [i \in DOMAIN ranked_ids |-> doc_store(results_lists, ranked_ids[i].d)]

\* ------------------------------------------------------------------ images
ImageThreshold == 220000
VisualWeight == 100
BoostWeight == 115

\* Variant: the seen paths are not consulted.
RECURSIVE ImagePass_noseen(_, _, _, _)
ImagePass_noseen(imgs, parent, weight, acc) ==
  IF imgs = <<>> THEN acc
  ELSE LET img == Head(imgs)
           final_score == img.sim * weight
           take == /\ img.path # None /\ img.path # ""
                   /\ img.emb
                   /\ final_score > ImageThreshold
       IN ImagePass_noseen(Tail(imgs), parent, weight,
                    IF take
                    THEN Append(acc, [image_path |-> img.path, score |-> final_score,
                                      parent |-> parent, boosted |-> weight = BoostWeight])
                    ELSE acc)

\* One pass of _retrieve_images over `nodes`: every image with a path not seen
\* yet and an embedding whose weighted similarity exceeds the threshold is
\* appended and its path marked seen.  Scores are in units of 0.000001.
RECURSIVE ImagePass(_, _, _, _)
ImagePass(imgs, parent, weight, acc) ==
  IF imgs = <<>> THEN acc
  ELSE LET img == Head(imgs)
           final_score == img.sim * weight
           take == /\ img.path # None /\ img.path # ""
                   /\ \A i \in DOMAIN acc : acc[i].image_path # img.path
                   /\ img.emb
                   /\ final_score > ImageThreshold
       IN ImagePass(Tail(imgs), parent, weight,
                    IF take
                    THEN Append(acc, [image_path |-> img.path, score |-> final_score,
                                      parent |-> parent, boosted |-> weight = BoostWeight])
                    ELSE acc)

RECURSIVE NodesPass(_, _, _)
NodesPass(nodes, weight, acc) ==
  IF nodes = <<>> THEN acc
  ELSE NodesPass(Tail(nodes), weight,
                 ImagePass(RelatedImages(Head(nodes)), Head(nodes), weight, acc))

\* Variant: the candidates are cut in the order they were collected.
retrieve_images_unsorted(visual_nodes, text_docs, limit) ==
  Take(NodesPass(text_docs, BoostWeight, NodesPass(visual_nodes, VisualWeight, <<>>)),
       limit)

\* _retrieve_images after strict_visual_search returned visual_nodes: the
\* visual-direct pass, the text-context pass with the boost, the global sort
\* and the cut to limit.
retrieve_images(visual_nodes, text_docs, limit) ==
  LET direct == NodesPass(visual_nodes, VisualWeight, <<>>)
      all_candidate_images == NodesPass(text_docs, BoostWeight, direct)
  IN Take(SortDesc(all_candidate_images), limit)

\* ------------------------------------------------------------ ask: inputs
\* Questions put to ask(): two and three words, four and six words, with and
\* without a category keyword, with upper case and repeated blanks, with
\* separators and capitals outside ASCII.
Questions ==
  { \* air wrench
    <<97, 105, 114, 32, 119, 114, 101, 110, 99, 104>>,
    \* best SUV  tyres 
    <<98, 101, 115, 116, 32, 83, 85, 86, 32, 32, 116, 121, 114, 101, 115, 32>>,
    \* what sofa is good
    <<119, 104, 97, 116, 32, 115, 111, 102, 97, 32, 105, 115, 32, 103, 111, 111, 100>>,
    \* which wrench for my old truck
    <<119, 104, 105, 99, 104, 32, 119, 114, 101, 110, 99, 104, 32, 102, 111, 114, 32, 109,
      121, 32, 111, 108, 100, 32, 116, 114, 117, 99, 107>>,
    \* SUV for my ODOS in Greek capitals, the words separated by U+1680, U+3000 and U+2003
    <<83, 85, 86, 5760, 102, 111, 114, 12288, 109, 121, 8195, 927, 916, 927, 931>>,
    \* fix WIring, its first I the dotted capital U+0130
    <<102, 105, 120, 32, 87, 304, 114, 105, 110, 103>> }

\* rag_mode arguments: the five documented names and an unknown one.
Modes == {"auto", "standard", "corrective", "speculative", "fusion", "hybrid"}

\* Ranked lists the backend answers with while an ask() runs.
AskLists == { <<>>, <<3>>, <<1, 2>>, <<2, 1>>, <<1, 2, 3>>, <<3, 1, 2>> }

\* self.llm.invoke(prompt).content: a text, or GenFail when the call raises
\* an Exception (no text holds the character -1).
GenFail == <<-1>>

\* The call raises a BaseException that is no Exception (KeyboardInterrupt,
\* SystemExit, GeneratorExit, asyncio.CancelledError): a bare `except:' catches
\* it, `except Exception' does not.
GenAbort == <<-2>>

\* "0.4", "0.6999999999999999" (the float before 0.7), "0.69999999999999999"
\* (read as the float 0.7), "Score: 0.7", "0." and the Arabic-Indic nine
\* (0.9), "n/a".
ScoreOutputs ==
  { <<48, 46, 52>>,
    <<48, 46, 54, 57, 57, 57, 57, 57, 57, 57, 57, 57, 57, 57, 57, 57, 57, 57>>,
    <<48, 46, 54, 57, 57, 57, 57, 57, 57, 57, 57, 57, 57, 57, 57, 57, 57, 57, 57>>,
    <<83, 99, 111, 114, 101, 58, 32, 48, 46, 55>>,
    <<48, 46, 1641>>, <<110, 47, 97>> }

\* The quoted text "air tool" between a thin space (U+2009) and a no-break
\* space (U+00A0); "seat".
RewriteOutputs ==
  { <<8201, 34, 97, 105, 114, 32, 116, 111, 111, 108, 34, 160>>,
    <<115, 101, 97, 116>> }

\* "", "oak", " oak,,X,elm ,ash" with X the em space U+2003.
EntityOutputs ==
  { <<>>, <<111, 97, 107>>,
    <<32, 111, 97, 107, 44, 44, 8195, 44, 101, 108, 109, 32, 44, 97, 115, 104>> }

\* "", "v1", "v1\nv2", "v1\nX\n v2Y\nv3\nv4" with X the line separator
\* U+2028 and Y the ideographic space U+3000.
QueryOutputs ==
  { <<>>, <<118, 49>>, <<118, 49, 10, 118, 50>>,
    <<118, 49, 10, 8232, 10, 32, 118, 50, 12288, 10, 118, 51, 10, 118, 52>> }

DraftOutputs == { <<100>> }

AnswerOutputs == { <<65>>, <<32>> }

\* ------------------------------------------------------ generator helpers
\* Variant: a failed scoring counts as no relevance.
score_relevance_zero(out) ==
  IF out \in {GenFail, GenAbort} THEN ScoreEmptyContext ELSE ParseScore(Strip(out))

\* _score_relevance after the generator answered `out`
score_relevance(out) == IF out \in {GenFail, GenAbort} THEN ScoreDefault ELSE ParseScore(Strip(out))

\* _rewrite_query
rewrite_query(query, out) == IF out \in {GenFail, GenAbort} THEN query ELSE RemoveQuotes(Strip(out))

\* _extract_entities
extract_entities(out) == IF out \in {GenFail, GenAbort} THEN <<>> ELSE StrippedParts(Strip(out), 44)

\* _generate_queries
generate_queries(question, out) ==
  IF out \in {GenFail, GenAbort} THEN <<question>>
  ELSE Take(StrippedParts(Strip(out), 10), 3) \o <<question>>

\* _generate_answer: the text, the apology for a blank text, the error message
\* for an Exception (except Exception as e); any other exception is raised.
generate_answer(out) ==
  IF out = GenAbort THEN "raised"
  ELSE IF out = GenFail THEN "error"
  ELSE IF Strip(out) # <<>> THEN "text" ELSE "apology"

KnownPipelines == {"standard", "corrective", "speculative", "fusion"}

\* The searches an ask() step can get back from the handler: the search run to
\* its end on the current registry, for every backend answer.
AskAnswers(search_params, filter_dict) ==
  { a \in Answers(broken_filters, search_params, filter_dict) :
      \A n \in 1..2 : a[n].ok => a[n].docs \in AskLists }

SearchOutcomes(search_params, filter_dict) ==
  { execute_resilient_search(broken_filters, search_params, filter_dict, a[1], a[2]) :
      a \in AskAnswers(search_params, filter_dict) }

\* _retrieve_context(question, top_k, category): db.unified_search
TextSearches(top_k, category) ==
  SearchOutcomes(SearchParams("vector_index", top_k), CategoryFilter(category))

ImageSearchLimit == 20
ImageLimit == 12

\* the search of _retrieve_images: db.strict_visual_search(emb, category, limit=20)
VisualSearches(category) ==
  SearchOutcomes(SearchParams("unified_clip_index", ImageSearchLimit),
                 CategoryFilter(category))

SearchRecord(res) ==
  [calls |-> res.calls, resps |-> res.resps, ok |-> res.ok, err |-> res.err]

WithSearch(a, q, top_k, category, res) ==
  [a EXCEPT !.searches = Append(@, [q |-> q, top_k |-> top_k, category |-> category]),
            !.db = SearchRecord(res)]

WithImageSearch(a, q, category, res) ==
  [a EXCEPT !.img_searches = Append(@, [q |-> q, category |-> category]),
            !.db = SearchRecord(res)]

WithGen(a, kind, out) ==
  [a EXCEPT !.gens = Append(@, [kind |-> kind, ok |-> out \notin {GenFail, GenAbort},
                                 base |-> out = GenAbort])]

\* An exception of a search, or one that _generate_answer does not catch,
\* leaves ask() through every frame: nothing catches it.
Raise(a) ==
  [a EXCEPT !.pc = "done",
            !.result = [status |-> "error", mode |-> None, keys |-> {},
                        err |-> IF a.answer = "raised"
                                THEN [cls |-> "BaseException", indexed_as_filter |-> FALSE]
                                ELSE a.db.err]]

\* Variant: the requested name is reported as it came.
Finish_echo(a, keys) ==
  [a EXCEPT !.pc = "done",
            !.result = [status |-> "ok", mode |-> a.rag_mode,
                        keys |-> keys \cup {"mode", "generation_time"},
                        err |-> NoErr]]

\* The tail of ask(): result["mode"] = rag_mode, where the else branch has set
\* rag_mode to "standard" for an unknown name.
Finish(a, keys) ==
  [a EXCEPT !.pc = "done",
            !.result = [status |-> "ok",
                        mode |-> IF a.rag_mode \in KnownPipelines
                                 THEN a.rag_mode ELSE "standard",
                        keys |-> keys \cup {"mode", "generation_time"},
                        err |-> NoErr]]

\* Variant: a three-word question is not short.
Route_strict(question, initial_docs) ==
  IF WordCount(question) < 3 THEN "speculative"
  ELSE IF Len(initial_docs) < 3 THEN "fusion"
  ELSE "standard"

\* The router's decision from the word count and the probe's result.
Route(question, initial_docs) ==
  IF WordCount(question) <= 3 THEN "speculative"
  ELSE IF Len(initial_docs) < 3 THEN "fusion"
  ELSE "standard"

\* The dispatch of ask() and the head of the pipeline it calls: the category is
\* detected and the initial documents are reused when there are any.
PipelineEntry(a) ==
  LET pipeline == IF a.rag_mode \in KnownPipelines THEN a.rag_mode ELSE "standard"
      b == [a EXCEPT !.pipeline = pipeline, !.category = detect_category(a.question)]
  IN CASE pipeline = "standard" ->
            IF Truthy(a.initial_docs)
            THEN [b EXCEPT !.docs = a.initial_docs.docs, !.pc = "std_images"]
            ELSE [b EXCEPT !.pc = "std_search"]
       [] pipeline = "corrective" ->
            IF Truthy(a.initial_docs)
            THEN [b EXCEPT !.docs = a.initial_docs.docs, !.pc = "cor_score"]
            ELSE [b EXCEPT !.pc = "cor_search"]
       [] pipeline = "speculative" ->
            IF Truthy(a.initial_docs)
            THEN [b EXCEPT !.docs = Take(a.initial_docs.docs, 3), !.pc = "spec_draft"]
            ELSE [b EXCEPT !.pc = "spec_search"]
       [] OTHER -> [b EXCEPT !.pc = "fus_queries"]

AskUnchanged == UNCHANGED <<th, nthreads, text_cache, clip_text_cache, encodes, fn, cap_fails>>

\* ---------------------------------------------------------- ask: actions
\* ask(question, rag_mode) is called.
AskEnter ==
  /\ ask.pc = "idle"
  /\ fn.op = "none"
  /\ \A t \in Threads : th[t].pc \in {"idle", "done"}
  /\ \E question \in Questions, rag_mode \in Modes :
       LET a == [AskIdle EXCEPT !.question = question, !.req_mode = rag_mode,
                                !.rag_mode = rag_mode]
       IN ask' = IF rag_mode = "auto" THEN [a EXCEPT !.pc = "probe"]
                 ELSE PipelineEntry(a)
  /\ th' = [t \in Threads |-> ThreadIdle]
  /\ UNCHANGED <<broken_filters, nthreads, text_cache, clip_text_cache, encodes, fn, cap_fails>>

\* The router's probe and decision.
RouterProbe ==
  /\ ask.pc = "probe"
  /\ \E res \in TextSearches(5, None) :
       LET a == WithSearch(ask, ask.question, 5, None, res) IN
       /\ ask' = IF ~res.ok THEN Raise(a)
                 ELSE PipelineEntry([a EXCEPT
                        !.initial_docs = [some |-> TRUE, docs |-> res.docs],
                        !.rag_mode = Route(ask.question, res.docs)])
       /\ broken_filters' = res.broken
  /\ AskUnchanged

\* ---- _standard_rag_pipeline
StdSearch ==
  /\ ask.pc = "std_search"
  /\ \E res \in TextSearches(10, ask.category) :
       LET a == WithSearch(ask, ask.question, 10, ask.category, res) IN
       /\ ask' = IF ~res.ok THEN Raise(a)
                 ELSE [a EXCEPT !.docs = res.docs, !.pc = "std_images"]
       /\ broken_filters' = res.broken
  /\ AskUnchanged

StdImages ==
  /\ ask.pc = "std_images"
  /\ \E res \in VisualSearches(ask.category) :
       LET a == WithImageSearch(ask, ask.question, ask.category, res) IN
       /\ ask' = IF ~res.ok THEN Raise(a)
                 ELSE [a EXCEPT !.images = retrieve_images(res.docs, ask.docs, ImageLimit),
                                !.pc = "std_answer"]
       /\ broken_filters' = res.broken
  /\ AskUnchanged

StdAnswer ==
  /\ ask.pc = "std_answer"
  /\ \E out \in AnswerOutputs \cup {GenFail, GenAbort} :
       LET a == [WithGen(ask, "answer", out) EXCEPT !.answer = generate_answer(out)]
       IN ask' = IF a.answer = "raised" THEN Raise(a)
                 ELSE Finish(a, {"answer", "images"})
  /\ UNCHANGED <<broken_filters, th, nthreads, text_cache, clip_text_cache, encodes, fn, cap_fails>>

\* ---- _corrective_rag_pipeline
CorSearch ==
  /\ ask.pc = "cor_search"
  /\ \E res \in TextSearches(8, ask.category) :
       LET a == WithSearch(ask, ask.question, 8, ask.category, res) IN
       /\ ask' = IF ~res.ok THEN Raise(a)
                 ELSE [a EXCEPT !.docs = res.docs, !.pc = "cor_score"]
       /\ broken_filters' = res.broken
  /\ AskUnchanged

\* Variant: a score of exactly 0.7 also triggers the rewrite.
Scored_lte(a, score) ==
  IF BelowThreshold(score) \/ score = Score(0, <<7>>)
  THEN [a EXCEPT !.score = score, !.pc = "cor_rewrite"]
  ELSE [a EXCEPT !.score = score, !.v_query = a.question, !.pc = "cor_images"]

\* After the score: the branch on score < 0.7.
Scored(a, score) ==
  IF BelowThreshold(score)
  THEN [a EXCEPT !.score = score, !.pc = "cor_rewrite"]
  ELSE [a EXCEPT !.score = score, !.v_query = a.question, !.pc = "cor_images"]

CorScore ==
  /\ ask.pc = "cor_score"
  /\ IF Strip(Context(ask.docs)) = <<>>
     THEN ask' = Scored(ask, ScoreEmptyContext)
     ELSE \E out \in ScoreOutputs \cup {GenFail, GenAbort} :
            ask' = Scored(WithGen(ask, "score", out), score_relevance(out))
  /\ UNCHANGED <<broken_filters, th, nthreads, text_cache, clip_text_cache, encodes, fn, cap_fails>>

CorRewrite ==
  /\ ask.pc = "cor_rewrite"
  /\ \E out \in RewriteOutputs \cup {GenFail, GenAbort} :
       ask' = [WithGen(ask, "rewrite", out) EXCEPT
                 !.rewritten_q = rewrite_query(ask.question, out),
                 !.pc = "cor_second"]
  /\ UNCHANGED <<broken_filters, th, nthreads, text_cache, clip_text_cache, encodes, fn, cap_fails>>

CorSecond ==
  /\ ask.pc = "cor_second"
  /\ \E res \in TextSearches(15, None) :
       LET a == WithSearch(ask, ask.rewritten_q, 15, None, res) IN
       /\ ask' = IF ~res.ok THEN Raise(a)
                 ELSE [a EXCEPT !.docs = deduplicate_docs(ask.docs \o res.docs),
                                !.v_query = ask.rewritten_q,
                                !.pc = "cor_images"]
       /\ broken_filters' = res.broken
  /\ AskUnchanged

CorImages ==
  /\ ask.pc = "cor_images"
  /\ \E res \in VisualSearches(ask.category) :
       LET a == WithImageSearch(ask, ask.v_query, ask.category, res) IN
       /\ ask' = IF ~res.ok THEN Raise(a)
                 ELSE [a EXCEPT !.images = retrieve_images(res.docs, ask.docs, ImageLimit),
                                !.pc = "cor_answer"]
       /\ broken_filters' = res.broken
  /\ AskUnchanged

CorAnswer ==
  /\ ask.pc = "cor_answer"
  /\ \E out \in AnswerOutputs \cup {GenFail, GenAbort} :
       LET a == [WithGen(ask, "answer", out) EXCEPT !.answer = generate_answer(out)]
       IN ask' = IF a.answer = "raised" THEN Raise(a)
                 ELSE Finish(a, {"answer", "images", "relevance_score"})
  /\ UNCHANGED <<broken_filters, th, nthreads, text_cache, clip_text_cache, encodes, fn, cap_fails>>

\* ---- _speculative_rag_pipeline
SpecSearch ==
  /\ ask.pc = "spec_search"
  /\ \E res \in TextSearches(3, ask.category) :
       LET a == WithSearch(ask, ask.question, 3, ask.category, res) IN
       /\ ask' = IF ~res.ok THEN Raise(a)
                 ELSE [a EXCEPT !.docs = res.docs, !.pc = "spec_draft"]
       /\ broken_filters' = res.broken
  /\ AskUnchanged

SpecDraft ==
  /\ ask.pc = "spec_draft"
  /\ \E out \in DraftOutputs \cup {GenFail, GenAbort} :
       ask' = [WithGen(ask, "draft", out) EXCEPT !.pc = "spec_entities"]
  /\ UNCHANGED <<broken_filters, th, nthreads, text_cache, clip_text_cache, encodes, fn, cap_fails>>

\* Step 3 of the pipeline: merge, deduplicate, rerank.
Synthesis(a) ==
  [a EXCEPT !.docs = rerank_by_relevance(a.question,
                       deduplicate_docs(a.docs \o a.enriched), 15),
            !.pc = "spec_answer"]

SpecEntities ==
  /\ ask.pc = "spec_entities"
  /\ \E out \in EntityOutputs \cup {GenFail, GenAbort} :
       LET a == [WithGen(ask, "entities", out) EXCEPT
                   !.entities = extract_entities(out), !.enriched = <<>>, !.i = 1]
       IN ask' = IF Take(a.entities, 2) = <<>> THEN Synthesis(a)
                 ELSE [a EXCEPT !.pc = "spec_enrich"]
  /\ UNCHANGED <<broken_filters, th, nthreads, text_cache, clip_text_cache, encodes, fn, cap_fails>>

\* Variant: every extracted entity is searched.
SpecEnrich_all ==
  /\ ask.pc = "spec_enrich"
  /\ LET used == ask.entities IN
     \E res \in TextSearches(3, None) :
       LET a == WithSearch(ask, used[ask.i], 3, None, res) IN
       /\ ask' = IF ~res.ok THEN Raise(a)
                 ELSE LET b == [a EXCEPT !.enriched = @ \o res.docs, !.i = @ + 1]
                      IN IF ask.i = Len(used) THEN Synthesis(b) ELSE b
       /\ broken_filters' = res.broken
  /\ AskUnchanged

\* One turn of `for entity in entities[:2]`.
SpecEnrich ==
  /\ ask.pc = "spec_enrich"
  /\ LET used == Take(ask.entities, 2) IN
     \E res \in TextSearches(3, None) :
       LET a == WithSearch(ask, used[ask.i], 3, None, res) IN
       /\ ask' = IF ~res.ok THEN Raise(a)
                 ELSE LET b == [a EXCEPT !.enriched = @ \o res.docs, !.i = @ + 1]
                      IN IF ask.i = Len(used) THEN Synthesis(b) ELSE b
       /\ broken_filters' = res.broken
  /\ AskUnchanged

SpecAnswer ==
  /\ ask.pc = "spec_answer"
  /\ \E out \in AnswerOutputs \cup {GenFail, GenAbort} :
       LET a == [WithGen(ask, "answer", out) EXCEPT !.answer = generate_answer(out)]
       IN ask' = IF a.answer = "raised" THEN Raise(a)
                 ELSE [a EXCEPT
                         !.v_query = ask.question \o <<32>> \o Join(Take(ask.entities, 2), <<32>>),
                         !.pc = "spec_images"]
  /\ UNCHANGED <<broken_filters, th, nthreads, text_cache, clip_text_cache, encodes, fn, cap_fails>>

SpecImages ==
  /\ ask.pc = "spec_images"
  /\ \E res \in VisualSearches(ask.category) :
       LET a == WithImageSearch(ask, ask.v_query, ask.category, res) IN
       /\ ask' = IF ~res.ok THEN Raise(a)
                 ELSE Finish([a EXCEPT !.images =
                                retrieve_images(res.docs, ask.docs, ImageLimit)],
                             {"answer", "images", "entities"})
       /\ broken_filters' = res.broken
  /\ AskUnchanged

\* ---- _fusion_rag_pipeline
\* Variant: every generated variation is searched.
FusQueries_uncut ==
  /\ ask.pc = "fus_queries"
  /\ \E out \in QueryOutputs \cup {GenFail, GenAbort} :
       ask' = [WithGen(ask, "queries", out) EXCEPT
                 !.queries = generate_queries(ask.question, out),
                 !.all_results = <<>>, !.i = 1, !.pc = "fus_search"]
  /\ UNCHANGED <<broken_filters, th, nthreads, text_cache, clip_text_cache, encodes, fn, cap_fails>>

FusQueries ==
  /\ ask.pc = "fus_queries"
  /\ \E out \in QueryOutputs \cup {GenFail, GenAbort} :
       ask' = [WithGen(ask, "queries", out) EXCEPT
                 !.queries = Take(generate_queries(ask.question, out), 2),
                 !.all_results = <<>>, !.i = 1, !.pc = "fus_search"]
  /\ UNCHANGED <<broken_filters, th, nthreads, text_cache, clip_text_cache, encodes, fn, cap_fails>>

\* One turn of `for q in queries`, and the fusion after the last.
FusSearch ==
  /\ ask.pc = "fus_search"
  /\ \E res \in TextSearches(10, ask.category) :
       LET a == WithSearch(ask, ask.queries[ask.i], 10, ask.category, res) IN
       /\ ask' = IF ~res.ok THEN Raise(a)
                 ELSE LET b == [a EXCEPT !.all_results = Append(@, res.docs), !.i = @ + 1]
                      IN IF ask.i = Len(ask.queries)
                         THEN [b EXCEPT !.docs = reciprocal_rank_fusion(b.all_results, 15, RrfK),
                                        !.pc = "fus_images"]
                         ELSE b
       /\ broken_filters' = res.broken
  /\ AskUnchanged

FusImages ==
  /\ ask.pc = "fus_images"
  /\ \E res \in VisualSearches(ask.category) :
       LET a == WithImageSearch(ask, ask.question, ask.category, res) IN
       /\ ask' = IF ~res.ok THEN Raise(a)
                 ELSE [a EXCEPT !.images = retrieve_images(res.docs, ask.docs, ImageLimit),
                                !.pc = "fus_answer"]
       /\ broken_filters' = res.broken
  /\ AskUnchanged

FusAnswer ==
  /\ ask.pc = "fus_answer"
  /\ \E out \in AnswerOutputs \cup {GenFail, GenAbort} :
       LET a == [WithGen(ask, "answer", out) EXCEPT !.answer = generate_answer(out)]
       IN ask' = IF a.answer = "raised" THEN Raise(a)
                 ELSE Finish(a, {"answer", "images", "queries"})
  /\ UNCHANGED <<broken_filters, th, nthreads, text_cache, clip_text_cache, encodes, fn, cap_fails>>

\* ask() has returned or raised: the caller has the outcome, the locals are gone.
AskReturn ==
  /\ ask.pc = "done"
  /\ ask' = AskIdle
  /\ UNCHANGED <<broken_filters, th, nthreads, text_cache, clip_text_cache, encodes, fn, cap_fails>>

\* ---------------------------------------------------------- specifications
\* ChatEngine.__init__: a new handler, no request in progress.
Init == InitHandler /\ nthreads = 1

NextAsk ==
  \/ AskEnter
  \/ RouterProbe
  \/ StdSearch \/ StdImages \/ StdAnswer
  \/ CorSearch \/ CorScore \/ CorRewrite \/ CorSecond \/ CorImages \/ CorAnswer
  \/ SpecSearch \/ SpecDraft \/ SpecEntities \/ SpecEnrich \/ SpecAnswer \/ SpecImages
  \/ FusQueries \/ FusSearch \/ FusImages \/ FusAnswer
  \/ AskReturn

\* Requests to one ChatEngine, one after the other.
Spec == Init /\ [][NextAsk]_vars

\* One engine whose handler also serves direct searches between requests.
SpecAll == Init /\ [][NextAsk \/ NextDB]_vars

\* ------------------------------------------------- helpers called directly
\* Result lists handed to _reciprocal_rank_fusion: empty, single, overlapping
\* in different orders, and one holding two copies of a document.
RrfLists ==
  { <<>>, <<1>>, <<2>>, <<2, 3, 1>>, <<1, 3, 2>>, <<2, 2 + NumDocs, 1>> }

RECURSIVE SeqsUpTo(_, _)
SeqsUpTo(S, n) ==
  IF n = 0 THEN {<<>>}
  ELSE LET shorter == SeqsUpTo(S, n - 1)
       IN shorter \cup { Append(s, x) : s \in { t \in shorter : Len(t) = n - 1 }, x \in S }

\* self._reciprocal_rank_fusion(results_lists, limit) is called.
CallFusion ==
  /\ ask.pc = "idle"
  /\ fn.op = "none"
  /\ \E results_lists \in SeqsUpTo(RrfLists, MaxLists), limit \in {MaxLimit, 15} :
       fn' = [NoCall EXCEPT !.op = "reciprocal_rank_fusion",
                            !.lists = results_lists, !.limit = limit,
                            !.out = reciprocal_rank_fusion(results_lists, limit, RrfK)]
  /\ UNCHANGED <<broken_filters, th, nthreads, text_cache, clip_text_cache, encodes, cap_fails, ask>>

\* Documents handed to _deduplicate_docs: the corpus and second copies.
DedupeDocs == DocIds \cup { d + NumDocs : d \in 1..2 }

\* self._deduplicate_docs(docs) is called.
CallDeduplicate ==
  /\ ask.pc = "idle"
  /\ fn.op = "none"
  /\ \E docs \in SeqsUpTo(DedupeDocs, MaxLen) :
       fn' = [NoCall EXCEPT !.op = "deduplicate_docs", !.docs = docs,
                            !.out = deduplicate_docs(docs)]
  /\ UNCHANGED <<broken_filters, th, nthreads, text_cache, clip_text_cache, encodes, cap_fails, ask>>

\* self._retrieve_images(search_query, category, limit, text_docs) is called and
\* strict_visual_search has returned visual_nodes.
CallImages ==
  /\ ask.pc = "idle"
  /\ fn.op = "none"
  /\ \E visual_nodes \in RankedLists, text_docs \in RankedLists,
        limit \in 1..MaxLimit \cup {ImageLimit} :
       fn' = [NoCall EXCEPT !.op = "retrieve_images", !.docs = visual_nodes,
                            !.text_docs = text_docs, !.limit = limit,
                            !.out = retrieve_images(visual_nodes, text_docs, limit)]
  /\ UNCHANGED <<broken_filters, th, nthreads, text_cache, clip_text_cache, encodes, cap_fails, ask>>

\* self._reciprocal_rank_fusion(all_results, limit) is called as the Fusion
\* pipeline calls it at its widest: two lists of 10 documents, no identifier
\* twice in a list.  Document 1 is at position p1 of the first list and p2 of
\* the second; with `two', document 2 is in both lists as well, one position
\* further; every other entry is a document of that list alone.
CallFusionWide ==
  /\ ask.pc = "idle"
  /\ fn.op = "none"
  /\ \E p1 \in 1..10, p2 \in 1..10, two \in BOOLEAN, limit \in {MaxLimit, 15} :
       LET List(p, base) ==
             [r \in 1..10 |-> IF r = p THEN 1
                              ELSE IF two /\ r = (p % 10) + 1 THEN 2
                              ELSE 2 * NumDocs + base + r]
           all_results == <<List(p1, 0), List(p2, 10)>>
       IN fn' = [NoCall EXCEPT !.op = "fusion_wide", !.lists = all_results,
                               !.limit = limit,
                               !.out = reciprocal_rank_fusion(all_results, limit, RrfK)]
  /\ UNCHANGED <<broken_filters, th, nthreads, text_cache, clip_text_cache, encodes, cap_fails, ask>>

\* self._rerank_by_relevance(query, docs, top_k) is called.
CallRerank ==
  /\ ask.pc = "idle"
  /\ fn.op = "none"
  /\ \E query \in Questions, docs \in SeqsUpTo(DocIds, MaxDocs),
        top_k \in 1..MaxLimit \cup {15} :
       fn' = [NoCall EXCEPT !.op = "rerank_by_relevance", !.query = query,
                            !.docs = docs, !.limit = top_k,
                            !.out = rerank_by_relevance(query, docs, top_k)]
  /\ UNCHANGED <<broken_filters, th, nthreads, text_cache, clip_text_cache, encodes, cap_fails, ask>>

\* Variant: storing an entry clears the others.
Store_evict(cache, text, result) == [k \in {text} |-> result]

\* self._text_cache[text] = result
Store(cache, text, result) ==
  [k \in DOMAIN cache \cup {text} |-> IF k = text THEN result ELSE cache[k]]

\* RAGTools.get_embeddings(text): the cached value; or text_model.encode is
\* invoked and either returns a vector, which is stored and returned, or
\* raises, which leaves the cache alone and ends the call with the exception.
get_embeddings ==
  /\ ask.pc = "idle"
  /\ fn.op = "none"
  /\ \E text \in Texts :
       IF text \in DOMAIN text_cache
       THEN /\ fn' = [NoCall EXCEPT !.op = "get_embeddings", !.query = text,
                                    !.cached = TRUE, !.out = text_cache[text]]
            /\ UNCHANGED <<text_cache, encodes>>
       ELSE \/ \E result \in Vectors :
                 /\ text_cache' = Store(text_cache, text, result)
                 /\ encodes' = [encodes EXCEPT !.text[text].invoked = @ + 1,
                                               !.text[text].returned = @ + 1]
                 /\ fn' = [NoCall EXCEPT !.op = "get_embeddings", !.query = text,
                                         !.out = result]
            \/ /\ encodes.text[text].invoked + 1 < MaxCount
               /\ encodes' = [encodes EXCEPT !.text[text].invoked = @ + 1]
               /\ fn' = [NoCall EXCEPT !.op = "get_embeddings", !.query = text,
                                       !.raised = TRUE]
               /\ UNCHANGED text_cache
  /\ UNCHANGED <<broken_filters, th, nthreads, cap_fails, ask, clip_text_cache>>

\* RAGTools.get_clip_text_embedding(text): as get_embeddings, on the CLIP
\* cache; the processor or the model can raise.
get_clip_text_embedding ==
  /\ ask.pc = "idle"
  /\ fn.op = "none"
  /\ \E text \in Texts :
       IF text \in DOMAIN clip_text_cache
       THEN /\ fn' = [NoCall EXCEPT !.op = "get_clip_text_embedding", !.query = text,
                                    !.cached = TRUE, !.out = clip_text_cache[text]]
            /\ UNCHANGED <<clip_text_cache, encodes>>
       ELSE \/ \E result \in Vectors :
                 /\ clip_text_cache' = Store(clip_text_cache, text, result)
                 /\ encodes' = [encodes EXCEPT !.clip[text].invoked = @ + 1,
                                               !.clip[text].returned = @ + 1]
                 /\ fn' = [NoCall EXCEPT !.op = "get_clip_text_embedding", !.query = text,
                                         !.out = result]
            \/ /\ encodes.clip[text].invoked + 1 < MaxCount
               /\ encodes' = [encodes EXCEPT !.clip[text].invoked = @ + 1]
               /\ fn' = [NoCall EXCEPT !.op = "get_clip_text_embedding", !.query = text,
                                       !.raised = TRUE]
               /\ UNCHANGED clip_text_cache
  /\ UNCHANGED <<broken_filters, th, nthreads, cap_fails, ask, text_cache>>

\* The caller has the value; the next call can be made.
FnReturn ==
  /\ fn.op # "none"
  /\ fn' = NoCall
  /\ UNCHANGED <<broken_filters, th, nthreads, text_cache, clip_text_cache, encodes, cap_fails, ask>>

NextFn ==
  \/ CallFusion
  \/ CallDeduplicate
  \/ CallImages
  \/ CallRerank
  \/ FnReturn

\* The helpers of one engine, called one after the other.
SpecFn == Init /\ [][NextFn]_vars

NextTools ==
  \/ get_embeddings
  \/ get_clip_text_embedding
  \/ FnReturn

\* The embedding lookups of one RAGTools, one after the other.
SpecTools == Init /\ [][NextTools]_vars

\* Requests in sequence, and the fusion called on lists of the widest size.
SpecFusion == Init /\ [][NextAsk \/ CallFusionWide \/ FnReturn]_vars

\* One engine: requests, and direct calls of its helpers between them.
SpecEngine == Init /\ [][NextAsk \/ NextFn]_vars

\* ----------------------------------------------------------------- claims
\* A backend answer that is the capability error: an OperationFailure whose
\* message contains "indexed as filter".
CapabilityErrorRaised(r) ==
  ~r.ok /\ r.err.cls = "OperationFailure" /\ r.err.indexed_as_filter

LastCall(s) == s.calls[Len(s.calls)]
LastResp(s) == s.resps[Len(s.resps)]

\* The search of thread state s took the fallback path and returned a result.
FellBack(s) ==
  /\ s.pc = "done"
  /\ s.ok
  /\ Len(s.calls) >= 1
  /\ IsRetry(LastCall(s))

\* C2: searches in sequence on one handler: a backend call carrying a filter is
\* never issued while a key of that filter is in the registry, a search whose
\* filter uses a registered key goes from the registry test straight to the
\* fallback, and per key at most one filtered call is ever answered by the
\* capability error.
C2_StickyRegistry ==
  /\ [][\A t \in Threads :
          /\ (/\ Len(th'[t].calls) > Len(th[t].calls)
              /\ LastCall(th'[t]).filter # NoFilter)
               => (DOMAIN LastCall(th'[t]).filter) \cap broken_filters = {}
          /\ (/\ th[t].pc = "check"
              /\ th'[t].pc # "check"
              /\ (DOMAIN th[t].filter) \cap broken_filters # {})
               => (th'[t].pc = "fallback" /\ th'[t].calls = <<>>)]_vars
  /\ [](\A k \in Keys : cap_fails[k] <= 1)

\* C2 witness: a search on the key "brand", made after the one detection of
\* that key, finished through the fallback call alone.
C2_Witness ==
  /\ cap_fails["brand"] = 1
  /\ th[1].pc = "done"
  /\ "brand" \in DOMAIN th[1].filter
  /\ Len(th[1].calls) = 1
  /\ IsRetry(th[1].calls[1])

\* C3: the registry never loses a key, whatever the searches do, and adding
\* keys that are all present leaves it unchanged.
C3_RegistryMonotonic ==
  /\ [][broken_filters \subseteq broken_filters']_vars
  /\ [](\A b \in SUBSET Keys : \A k \in b : LearnBroken(b, k) = b)

\* C3 witness: the registry has grown to three keys and the last search failed.
C3_Witness ==
  /\ broken_filters = Keys
  /\ th[1].pc = "done"
  /\ ~th[1].ok

\* C4: when the filtered backend call is answered by the capability error, all
\* keys of the filter are in the registry from the fallback on, the search ends
\* with exactly one more backend call, the unfiltered widened one, and what the
\* caller gets is that call's outcome: never the error of the filtered call.
C4_CapabilityErrorHandled ==
  \A t \in Threads :
    LET s == th[t] IN
    (/\ s.pc \in {"fallback", "done"}
     /\ Len(s.resps) >= 1
     /\ s.calls[1].filter # NoFilter
     /\ CapabilityErrorRaised(s.resps[1]))
    => /\ DOMAIN s.calls[1].filter \subseteq broken_filters
       /\ s.pc = "done" =>
            /\ Len(s.calls) = 2
            /\ IsRetry(s.calls[2])
            /\ s.calls[2].filter = NoFilter
            /\ IF s.resps[2].ok
               THEN s.ok /\ \A i \in DOMAIN s.docs : DocMatches(s.docs[i], s.filter)
               ELSE ~s.ok /\ s.err = s.resps[2].err

\* C4 witness: a two-key filter failed with the capability error and the search
\* returned documents found by the fallback.
C4_Witness ==
  /\ th[1].pc = "done"
  /\ DOMAIN th[1].filter = {"brand", "page"}
  /\ Len(th[1].resps) = 2
  /\ CapabilityErrorRaised(th[1].resps[1])
  /\ th[1].ok
  /\ Len(th[1].docs) > 0

\* Position of document x in the list s.
Pos(x, s) == CHOOSE i \in DOMAIN s : s[i] = x

\* C6: a result of the fallback path holds only documents matching every
\* key/value of the filter, at most the requested limit of them, in the
\* relative order of the unfiltered backend answer.
C6_FallbackResultCorrect ==
  \A t \in Threads :
    LET s == th[t]
        back == LastResp(s).docs
    IN FellBack(s) =>
         /\ \A i \in DOMAIN s.docs : DocMatches(s.docs[i], s.filter)
         /\ Len(s.docs) <= s.sp.limit
         /\ \A i \in DOMAIN s.docs : \E j \in DOMAIN back : back[j] = s.docs[i]
         /\ \A i, j \in DOMAIN s.docs :
              i < j => Pos(s.docs[i], back) < Pos(s.docs[j], back)

\* C6 witness: the backend answered three documents, the first does not match
\* the filter, two do, and the requested limit of 1 kept the first of those.
C6_Witness ==
  /\ FellBack(th[1])
  /\ th[1].sp.limit = 1
  /\ Len(LastResp(th[1]).docs) = 3
  /\ ~DocMatches(LastResp(th[1]).docs[1], th[1].filter)
  /\ DocMatches(LastResp(th[1]).docs[2], th[1].filter)
  /\ DocMatches(LastResp(th[1]).docs[3], th[1].filter)
  /\ th[1].docs = <<LastResp(th[1]).docs[2]>>

\* ------------------------------------------------------- claims on ask()
\* The positions of each pipeline.
PipelinePcs(p) ==
  CASE p = "standard" -> {"std_search", "std_images", "std_answer"}
    [] p = "corrective" -> {"cor_search", "cor_score", "cor_rewrite", "cor_second",
                            "cor_images", "cor_answer"}
    [] p = "speculative" -> {"spec_search", "spec_draft", "spec_entities",
                             "spec_enrich", "spec_answer", "spec_images"}
    [] p = "fusion" -> {"fus_queries", "fus_search", "fus_images", "fus_answer"}
    [] OTHER -> {}

\* ask() returned a result (it did not raise).
Returned == ask.pc = "done" /\ ask.result.status = "ok"

Elems(s) == { s[i] : i \in DOMAIN s }

NoDup(s) == \A i, j \in DOMAIN s : s[i] = s[j] => i = j

\* C1: in auto mode, once the probe has returned, the pipeline that runs is
\* Speculative for a question of at most 3 words, else Fusion when the probe
\* returned fewer than 3 documents, else Standard; only positions of that
\* pipeline are visited and the returned mode names it.
C1_RouterDecision ==
  (ask.req_mode = "auto" /\ ask.initial_docs.some) =>
    LET expected == IF WordCount(ask.question) <= 3 THEN "speculative"
                    ELSE IF Len(ask.initial_docs.docs) < 3 THEN "fusion"
                    ELSE "standard"
    IN /\ ask.pipeline = expected
       /\ ask.pc \in PipelinePcs(expected) \cup {"done"}
       /\ Returned => ask.result.mode = expected

\* C1 witness: the question of four words separated by U+1680, U+3000 and
\* U+2003, whose probe returned two documents, was answered by the Fusion
\* pipeline.
C1_Witness ==
  /\ Returned
  /\ ask.req_mode = "auto"
  /\ ask.question = <<83, 85, 86, 5760, 102, 111, 114, 12288, 109, 121, 8195, 927, 916, 927, 931>>
  /\ Len(ask.initial_docs.docs) = 2
  /\ ask.result.mode = "fusion"
  /\ "queries" \in ask.result.keys

\* A backend answer that is an error other than a capability mismatch of the
\* call it answers.
OtherError(resp, call) ==
  ~resp.ok /\ ~(CapabilityErrorRaised(resp) /\ call.filter # NoFilter)

\* C5: a backend error that is not a capability mismatch ends the search at
\* once with that error: no backend call follows it, the registry keeps its
\* value, and an ask() whose search failed ends with that same error.
C5_OtherErrorsPropagate ==
  /\ [][\A t \in Threads :
          (/\ Len(th'[t].resps) > Len(th[t].resps)
           /\ OtherError(LastResp(th'[t]), LastCall(th'[t])))
          => /\ th'[t].pc = "done"
             /\ ~th'[t].ok
             /\ th'[t].err = LastResp(th'[t]).err
             /\ broken_filters' = broken_filters]_vars
  /\ [][(ask'.db # ask.db /\ ~ask'.db.ok) => broken_filters' = broken_filters]_vars
  /\ [](\A i \in DOMAIN ask.db.resps :
          OtherError(ask.db.resps[i], ask.db.calls[i])
          => /\ i = Len(ask.db.calls)
             /\ ~ask.db.ok
             /\ ask.db.err = ask.db.resps[i].err
             /\ ask.pc = "done"
             /\ ask.result.status = "error"
             /\ ask.result.err = ask.db.err)

\* C5 witness: the probe of an auto request, a search without filter, was
\* answered by an error whose message contains "indexed as filter"; ask() ended
\* with that error after this one backend call.
C5_Witness ==
  /\ ask.pc = "done"
  /\ ask.req_mode = "auto"
  /\ ask.result.status = "error"
  /\ ask.result.err = [cls |-> "OperationFailure", indexed_as_filter |-> TRUE]
  /\ Len(ask.db.calls) = 1
  /\ ask.db.calls[1].filter = NoFilter
  /\ broken_filters = {"category"}

C8_ProbeResultsReused ==
  ask.req_mode = "auto" =>
    \A i \in 2..Len(ask.searches) : ask.searches[i].q # ask.question

\* A generator call of this kind raised during the request.
GenFailed(kind) == \E i \in DOMAIN ask.gens : ask.gens[i].kind = kind /\ ~ask.gens[i].ok

\* A generator call of this kind raised what is no Exception.
GenAborted(kind) == \E i \in DOMAIN ask.gens : ask.gens[i].kind = kind /\ ask.gens[i].base

CorrectedRun ==
  /\ ask.pipeline = "corrective"
  /\ ask.pc \in {"cor_images", "cor_answer"} \/ Returned
  /\ BelowThreshold(ask.score)

\* C10: a Corrective request whose first-pass score is below 0.7 makes exactly
\* one rewrite and, after the first pass, exactly one text search: the
\* rewritten query, width 15, no category.  The documents after that search
\* are the first pass followed by the new documents of the second, without
\* duplicates.  The score is computed once and keeps its value to the result,
\* which carries relevance_score.
C10_CorrectiveOnePass ==
  /\ [](CorrectedRun =>
          /\ Cardinality({ i \in DOMAIN ask.gens : ask.gens[i].kind = "rewrite" }) = 1
          /\ Cardinality({ i \in DOMAIN ask.gens : ask.gens[i].kind = "score" }) <= 1
          /\ Len(ask.searches) = IF ask.initial_docs.some THEN 1 ELSE 2
          /\ ask.searches[Len(ask.searches)] =
               [q |-> ask.rewritten_q, top_k |-> 15, category |-> None]
          /\ Cardinality({ i \in DOMAIN ask.searches : ask.searches[i].top_k = 15 }) = 1
          /\ NoDup(ask.docs)
          /\ Returned => "relevance_score" \in ask.result.keys)
  /\ [][(ask.pc = "cor_second" /\ ask'.pc = "cor_images") =>
          LET second == LastResp(ask'.db).docs IN
          /\ ask'.db.calls = <<SearchParams("vector_index", 15)>>
          /\ Elems(ask'.docs) = Elems(ask.docs) \cup Elems(second)
          /\ NoDup(ask'.docs)
          /\ \A i, j \in DOMAIN ask'.docs :
               i < j => \/ ask'.docs[i] \in Elems(ask.docs) /\ ask'.docs[j] \notin Elems(ask.docs)
                        \/ /\ ask'.docs[i] \in Elems(ask.docs) /\ ask'.docs[j] \in Elems(ask.docs)
                           /\ Pos(ask'.docs[i], ask.docs) < Pos(ask'.docs[j], ask.docs)
                        \/ /\ ask'.docs[i] \notin Elems(ask.docs) /\ ask'.docs[j] \notin Elems(ask.docs)
                           /\ Pos(ask'.docs[i], second) < Pos(ask'.docs[j], second)]_vars
  /\ [][(ask.pc \in {"cor_rewrite", "cor_second", "cor_images", "cor_answer"}
         /\ ask'.pc # "idle") => ask'.score = ask.score]_vars

\* C10 witness: first-pass score 0.4, first pass <<1, 2>>, second pass
\* <<3, 1, 2>> for the rewritten query: the merged documents are <<1, 2, 3>>.
C10_Witness ==
  /\ ask.pc = "cor_images"
  /\ ask.pipeline = "corrective"
  /\ ask.score = Score(0, <<4>>)
  /\ ask.rewritten_q = <<97, 105, 114, 32, 116, 111, 111, 108>>
  /\ LastResp(ask.db).docs = <<3, 1, 2>>
  /\ ask.docs = <<1, 2, 3>>
  /\ Len(ask.searches) = 2

\* The Corrective pipeline after its image search.
CorImagesDone ==
  /\ ask.pipeline = "corrective"
  /\ ask.pc = "cor_answer" \/ Returned

\* C11: in the Corrective pipeline a score of 0.7 or more means no rewrite, no
\* second text search and an image search for the original question; a score
\* below 0.7 means an image search for the rewritten query.
C11_CorrectiveGate ==
  /\ (ask.pipeline = "corrective" /\ ask.pc \in {"cor_images", "cor_answer", "done"}
      /\ ask.score # NoScore /\ ~BelowThreshold(ask.score))
       => /\ \A i \in DOMAIN ask.gens : ask.gens[i].kind # "rewrite"
          /\ \A i \in DOMAIN ask.searches :
               i = 1 /\ ask.searches[i].q = ask.question /\ ask.searches[i].top_k # 15
          /\ \A i \in DOMAIN ask.img_searches : ask.img_searches[i].q = ask.question
  /\ CorImagesDone =>
       /\ Len(ask.img_searches) = 1
       /\ ask.img_searches[1].q =
            IF BelowThreshold(ask.score) THEN ask.rewritten_q ELSE ask.question

\* C11 witness: the score was read from "0.69999999999999999", which is the
\* float 0.7; the request returned after one text search, no rewrite, and an
\* image search for the question.
C11_Witness ==
  /\ Returned
  /\ ask.pipeline = "corrective"
  /\ ask.score = Score(0, <<6, 9, 9, 9, 9, 9, 9, 9, 9, 9, 9, 9, 9, 9, 9, 9, 9>>)
  /\ Len(ask.searches) = 1
  /\ Len(ask.gens) = 2
  /\ ask.img_searches = <<[q |-> ask.question, category |-> ask.category]>>

\* ------------------------------------------------ claims on the helpers
\* The sum of 1/(rank + k) over the entries of doc_id, exactly: an integer
\* multiple of 1/RrfScale, RrfScale a common multiple of every rank + k.
RECURSIVE RrfScale(_, _)
RrfScale(n, k) == IF n = 0 THEN 1 ELSE (k + n - 1) * RrfScale(n - 1, k)

RECURSIVE SumSeq(_)
SumSeq(s) == IF s = <<>> THEN 0 ELSE Head(s) + SumSeq(Tail(s))

ExactScore(results_lists, doc_id, k) ==
  SumSeq([i \in DOMAIN Denominators(results_lists, doc_id, k) |->
            RrfScale(3, k) \div Denominators(results_lists, doc_id, k)[i]])

\* Where an identifier is first met in the lists, read one after the other.
FirstMet(results_lists, doc_id) ==
  LET all == Flatten(results_lists)
  IN CHOOSE i \in DOMAIN all :
       DocId(all[i]) = doc_id /\ \A j \in 1..(i - 1) : DocId(all[j]) # doc_id

IdsOf(results_lists) == { DocId(d) : d \in Elems(Flatten(results_lists)) }

Fused == fn.op = "reciprocal_rank_fusion"

\* C12: the fused score of a document is the sum of 1/(rank + k) over its
\* entries (rank from 0, k = 60), added up in binary64 in the order the
\* entries are met: whenever the exact sums of two documents differ, the
\* scores differ the same way, and with one or two lists equal sums are equal
\* scores.  The output is ordered by descending score; of two documents with
\* equal scores the one first met comes first; the output holds the `limit'
\* best documents, all of them when there are fewer.
C12_FusionOrder ==
  Fused =>
    LET ids == IdsOf(fn.lists)
        \* the scores, computed and exact, as tables over the identifiers
        S == [x \in ids |-> fused_scores(fn.lists, x, RrfK)] @@ <<>>
        E == [x \in ids |-> ExactScore(fn.lists, x, RrfK)] @@ <<>>
        Above(x, y) == ~FloatGeq(S[y], S[x])
        out == [i \in DOMAIN fn.out |-> DocId(fn.out[i])]
    IN /\ Len(out) = Min(fn.limit, Cardinality(ids))
       /\ \A i, j \in DOMAIN out :
            i < j => \/ Above(out[i], out[j])
                     \/ /\ S[out[i]] = S[out[j]]
                        /\ FirstMet(fn.lists, out[i]) < FirstMet(fn.lists, out[j])
       /\ \A x \in ids :
            (\A i \in DOMAIN out : out[i] # x)
            => \A i \in DOMAIN out : FloatGeq(S[out[i]], S[x])
       /\ \A x, y \in ids :
            /\ E[x] > E[y] => Above(x, y)
            /\ (Len(fn.lists) <= 2 /\ E[x] = E[y]) => S[x] = S[y]

\* C12 witness: in <<2, 3, 1>> and <<1, 3, 2>> documents 2 and 1 both score
\* 1/60 + 1/62, more than the 1/61 + 1/61 of document 3; cut to two, the
\* output is document 2, met first, and then document 1.
C12_Witness ==
  /\ Fused
  /\ fn.lists = << <<2, 3, 1>>, <<1, 3, 2>> >>
  /\ fn.limit = MaxLimit
  /\ fn.out = <<2, 1>>

\* C13: every document returned by the fusion was in an input list and no
\* identifier is returned twice.
C13_FusionSubset ==
  Fused =>
    /\ \A i \in DOMAIN fn.out : fn.out[i] \in Elems(Flatten(fn.lists))
    /\ \A i, j \in DOMAIN fn.out : DocId(fn.out[i]) = DocId(fn.out[j]) => i = j

\* C13 witness: two lists, one with two copies of document 2, were fused
\* into three documents.
C13_Witness ==
  /\ Fused
  /\ fn.lists = << <<2, 2 + NumDocs, 1>>, <<1, 3, 2>> >>
  /\ Len(fn.out) = 3
  /\ DocId(fn.out[1]) = 2

\* The lists with document d appended to list i, with the new list <<d>> put
\* before list i, and with the entries at ranks r and r - 1 of list i swapped.
WithEntry(lists, i, d) == [lists EXCEPT ![i] = Append(@, d)]

WithList(lists, i, d) ==
  SubSeq(lists, 1, i - 1) \o << <<d>> >> \o SubSeq(lists, i, Len(lists))

MovedUp(lists, i, r) == [lists EXCEPT ![i] = [@ EXCEPT ![r - 1] = lists[i][r],
                                                      ![r] = lists[i][r - 1]]]

\* C14: the fused score of a document does not decrease when an entry for it
\* is added (at the end of a list, or as a new list anywhere) or when one of
\* its entries moves one rank up.
C14_FusionMonotonic ==
  Fused =>
    /\ \A d \in DocIds :
         LET before == fused_scores(fn.lists, d, RrfK) IN
         /\ \A i \in DOMAIN fn.lists :
              FloatGeq(fused_scores(WithEntry(fn.lists, i, d), d, RrfK), before)
         /\ \A i \in 1..(Len(fn.lists) + 1) :
              FloatGeq(fused_scores(WithList(fn.lists, i, d), d, RrfK), before)
    /\ \A i \in DOMAIN fn.lists : \A r \in 2..Len(fn.lists[i]) :
         DocId(fn.lists[i][r]) # DocId(fn.lists[i][r - 1]) =>
           FloatGeq(fused_scores(MovedUp(fn.lists, i, r), DocId(fn.lists[i][r]), RrfK),
                    fused_scores(fn.lists, DocId(fn.lists[i][r]), RrfK))

\* C14 witness: document 1 is last of three in one list and first in another;
\* moving it up, and adding an entry for it, both raise its score strictly.
C14_Witness ==
  /\ Fused
  /\ fn.lists = << <<2, 3, 1>>, <<1>> >>
  /\ ~FloatGeq(fused_scores(fn.lists, 1, RrfK),
               fused_scores(MovedUp(fn.lists, 1, 3), 1, RrfK))
  /\ ~FloatGeq(fused_scores(fn.lists, 1, RrfK),
               fused_scores(WithEntry(fn.lists, 2, 1), 1, RrfK))

Deduplicated == fn.op = "deduplicate_docs"

\* Index of the first document of s with the _id of d.
FirstIndex(s, d) ==
  CHOOSE i \in DOMAIN s : DocId(s[i]) = DocId(d) /\ \A j \in 1..(i - 1) : DocId(s[j]) # DocId(d)

\* C15: deduplication returns one entry per identifier of the input, each the
\* first document met with that identifier, in the order in which the
\* identifiers are first met.
C15_DedupeFirstSeen ==
  Deduplicated =>
    /\ { DocId(d) : d \in Elems(fn.out) } = { DocId(d) : d \in Elems(fn.docs) }
    /\ \A i, j \in DOMAIN fn.out : DocId(fn.out[i]) = DocId(fn.out[j]) => i = j
    /\ \A i \in DOMAIN fn.out : fn.out[i] = fn.docs[FirstIndex(fn.docs, fn.out[i])]
    /\ \A i, j \in DOMAIN fn.out :
         i < j => FirstIndex(fn.docs, fn.out[i]) < FirstIndex(fn.docs, fn.out[j])

\* C15 witness: of the two copies of document 2 and the two entries of
\* document 1 the first ones were kept, in their order.
C15_Witness ==
  /\ Deduplicated
  /\ fn.docs = <<2, 1, 2 + NumDocs, 1>>
  /\ fn.out = <<2, 1>>

\* C16: deduplicating a deduplicated list changes nothing, and a list without
\* a repeated identifier is returned as it is.
C16_DedupeIdempotent ==
  Deduplicated =>
    /\ deduplicate_docs(fn.out) = fn.out
    /\ (\A i, j \in DOMAIN fn.docs : DocId(fn.docs[i]) = DocId(fn.docs[j]) => i = j)
         => fn.out = fn.docs

\* C16 witness: a list of four documents with two identifiers, reduced to two
\* documents that a second pass keeps; the output is itself an input without
\* a repeated identifier.
C16_Witness ==
  /\ Deduplicated
  /\ fn.docs = <<3, 1 + NumDocs, 3, 1>>
  /\ fn.out = <<3, 1 + NumDocs>>
  /\ deduplicate_docs(fn.out) = <<3, 1 + NumDocs>>

ImagesRetrieved == fn.op = "retrieve_images"

\* The stored images with path p of document d that carry an embedding.
ImagesAt(d, p) ==
  { i \in DOMAIN RelatedImages(d) :
      RelatedImages(d)[i].path = p /\ RelatedImages(d)[i].emb }

\* Cosine similarity (units of 0.0001) of the output image o to the query.
SimOf(o) ==
  RelatedImages(o.parent)[CHOOSE i \in ImagesAt(o.parent, o.image_path) : TRUE].sim

\* C17: no image with a similarity below 0.22 is in the image output.
C17_ThresholdOnSimilarity ==
  ImagesRetrieved => \A i \in DOMAIN fn.out : SimOf(fn.out[i]) >= 2200

\* C18: an output image that a document of the text-context pass holds has
\* the score similarity x 1.15.
C18_BoostWhenParentRetrieved ==
  ImagesRetrieved =>
    \A i \in DOMAIN fn.out :
      (\E d \in Elems(fn.text_docs) : ImagesAt(d, fn.out[i].image_path) # {})
      => fn.out[i].score = SimOf(fn.out[i]) * 115

\* C19: a path is in the image output at most once, and the score of an image
\* is its similarity, or its similarity x 1.15: never boosted twice.
C19_BoostOnce ==
  ImagesRetrieved =>
    /\ \A i, j \in DOMAIN fn.out : fn.out[i].image_path = fn.out[j].image_path => i = j
    /\ \A i \in DOMAIN fn.out :
         \/ fn.out[i].score = SimOf(fn.out[i]) * 100
         \/ fn.out[i].score = SimOf(fn.out[i]) * 115

\* C19 witness: a.png is reached by both passes, b.png through both documents
\* of the text-context pass; each is returned once.
C19_Witness ==
  /\ ImagesRetrieved
  /\ fn.docs = <<1>>
  /\ fn.text_docs = <<1, 2>>
  /\ [i \in DOMAIN fn.out |-> <<fn.out[i].image_path, fn.out[i].score>>] =
       << <<"c.png", 287500>>, <<"a.png", 270000>>, <<"b.png", 230000>> >>

SortedByScore(imgs) == \A i, j \in DOMAIN imgs : i < j => imgs[i].score >= imgs[j].score

\* C20: the images of every request are in descending order of final score
\* and at most 12; a direct call returns, in descending order of final score,
\* the `limit' best of the candidates of the two passes, all of them when
\* there are fewer.
C20_ImagesSortedAndCapped ==
  /\ SortedByScore(ask.images)
  /\ Len(ask.images) <= 12
  /\ ImagesRetrieved =>
       LET cands == NodesPass(fn.text_docs, 115, NodesPass(fn.docs, 100, <<>>)) IN
       /\ SortedByScore(fn.out)
       /\ Len(fn.out) = Min(fn.limit, Len(cands))
       /\ Elems(fn.out) \subseteq Elems(cands)
       /\ \A c \in Elems(cands) \ Elems(fn.out) :
            \A i \in DOMAIN fn.out : fn.out[i].score >= c.score

\* C20 witness: the boosted c.png (0.25 x 1.15 = 0.2875) comes before the
\* unboosted a.png (0.27), and the limit of 2 has cut b.png.
C20_Witness ==
  /\ ImagesRetrieved
  /\ fn.limit = 2
  /\ fn.docs = <<1>>
  /\ fn.text_docs = <<2>>
  /\ Len(fn.out) = 2
  /\ fn.out[1].image_path = "c.png" /\ fn.out[1].boosted /\ fn.out[1].score = 287500
  /\ fn.out[2].image_path = "a.png" /\ ~fn.out[2].boosted /\ fn.out[2].score = 270000

\* ------------------------------------------- claims on the later pipelines
\* The Fusion pipeline past the choice of its query variations.
FusionChosen ==
  /\ ask.pipeline = "fusion"
  /\ ask.pc \in {"fus_search", "fus_images", "fus_answer", "done"}
  /\ ask.gens # <<>>

\* C21: the query variations searched by the Fusion pipeline are at most two
\* and the original question is one of them.
C21_FusionWorkingSet ==
  FusionChosen =>
    /\ Len(ask.queries) <= 2
    /\ ask.question \in Elems(ask.queries)
    /\ \A i \in DOMAIN ask.searches :
         ask.searches[i].top_k = 10 => ask.searches[i].q \in Elems(ask.queries)

\* A request with the strategy name "standard" for a question with a keyword.
StandardWithCategory ==
  /\ ask.req_mode = "standard"
  /\ ask.pc # "idle"
  /\ detect_category(ask.question) # None

\* C22: a request with strategy "standard" whose question holds a category
\* keyword makes its text search and its image search with the detected
\* category: the documents the text search returns, and the parent documents
\* of the images, all carry that category.
C22_StandardCategoryFilter ==
  StandardWithCategory =>
    /\ ask.category = detect_category(ask.question)
    /\ \A i \in DOMAIN ask.searches :
         ask.searches[i] = [q |-> ask.question, top_k |-> 10, category |-> ask.category]
    /\ \A i \in DOMAIN ask.img_searches :
         ask.img_searches[i] = [q |-> ask.question, category |-> ask.category]
    /\ ask.pc \in {"std_images", "std_answer"} \/ Returned =>
         /\ Len(ask.searches) = 1
         /\ \A i \in DOMAIN ask.docs : Field(ask.docs[i], "category") = ask.category
    /\ ask.pc = "std_answer" \/ Returned =>
         /\ Len(ask.img_searches) = 1
         /\ \A i \in DOMAIN ask.images :
              Field(ask.images[i].parent, "category") = ask.category

\* C22 witness: the backend answered the text search with documents 1, 2, 3;
\* document 3, of category "tools", was filtered out.
C22_Witness ==
  /\ StandardWithCategory
  /\ ask.pc = "std_images"
  /\ ask.searches = <<[q |-> ask.question, top_k |-> 10, category |-> "automotive"]>>
  /\ LastResp(ask.db).docs = <<1, 2, 3>>
  /\ ask.docs = <<1, 2>>

\* ------------------------------------------- claims on concurrent searches
\* The filtered backend call of the search in thread state s was answered by
\* the capability error.
Rejected(s) ==
  /\ Len(s.resps) >= 1
  /\ s.calls[1].filter # NoFilter
  /\ CapabilityErrorRaised(s.resps[1])

\* C23: searches on the same unregistered key running concurrently, their
\* steps interleaved in any order: the registry never loses a key; once a
\* search has had its filtered call rejected, the keys of its filter are in
\* the registry and stay there; and such a search ends with the outcome of its
\* unfiltered fallback call, locally filtered and cut to the limit, never with
\* the capability error of its filtered call.
C23_ConcurrentLearning ==
  /\ [][broken_filters \subseteq broken_filters']_vars
  /\ [](\A t \in Threads :
          LET s == th[t] IN
          (s.pc \in {"fallback", "done"} /\ Rejected(s)) =>
            /\ DOMAIN s.filter \subseteq broken_filters
            /\ s.pc = "done" =>
                 /\ Len(s.calls) = 2
                 /\ IsRetry(s.calls[2]) /\ s.calls[2].filter = NoFilter
                 /\ IF s.resps[2].ok
                    THEN /\ s.ok
                         /\ s.docs = Take(ManualFilter(s.resps[2].docs, s.filter), s.sp.limit)
                    ELSE ~s.ok /\ s.err = s.resps[2].err)

\* C23 witness: two searches sharing the key "brand" both passed the registry
\* test before either learned; both filtered calls were rejected, both added
\* their keys, both returned the locally filtered fallback result.
C23_Witness ==
  /\ \A t \in 1..2 : th[t].pc = "done" /\ Rejected(th[t]) /\ th[t].ok
  /\ DOMAIN th[1].filter = {"brand"}
  /\ DOMAIN th[2].filter = {"brand", "page"}
  /\ cap_fails["brand"] = 2
  /\ broken_filters = Keys
  /\ th[1].resps[2].docs = <<2, 3, 1>>
  /\ th[1].docs = <<3, 1>>

\* ---------------------------------------- claims on the Speculative pipeline
\* The Speculative pipeline past its enrichment.
Enriched ==
  /\ ask.pipeline = "speculative"
  /\ ask.pc \in {"spec_answer", "spec_images"} \/ Returned

\* C24: the Speculative pipeline uses the first two extracted entities at
\* most: after its first pass it makes one text search per used entity, for
\* that entity, of width 3 and without category; the merged documents hold no
\* identifier twice, are at most 15, all come from the first pass or the
\* enrichment, and are in descending order of similarity to the question; the
\* one image search is made for the question followed by the used entities.
C24_SpeculativeEnrichment ==
  /\ [](Enriched =>
          LET used == Take(ask.entities, 2)
              n == Len(ask.searches) - Len(used)
          IN /\ Len(used) = Min(2, Len(ask.entities))
             /\ n = IF Truthy(ask.initial_docs) \/ ~ask.initial_docs.some THEN 1 ELSE 2
             /\ \A i \in DOMAIN used :
                  ask.searches[n + i] = [q |-> used[i], top_k |-> 3, category |-> None]
             /\ \A i \in 1..n : ask.searches[i].q = ask.question
             /\ \A i, j \in DOMAIN ask.docs : DocId(ask.docs[i]) = DocId(ask.docs[j]) => i = j
             /\ Len(ask.docs) <= 15
             /\ \A i, j \in DOMAIN ask.docs :
                  i < j => TextSim(ask.question, ask.docs[i]) >= TextSim(ask.question, ask.docs[j])
             /\ (ask.pc = "done") =>
                  ask.img_searches =
                    <<[q |-> ask.question \o <<32>> \o Join(used, <<32>>),
                       category |-> ask.category]>>)
  /\ [][(ask.pc \in {"spec_entities", "spec_enrich"} /\ ask'.pc = "spec_answer") =>
          Elems(ask'.docs) \subseteq Elems(ask.docs) \cup Elems(ask'.enriched)]_vars

\* C24 witness: of the five pieces of " oak,,X,elm ,ash" (X the em space
\* U+2003) three are entities; the request made its first search and two
\* searches, for "oak" and "elm", and looked for images with the question
\* followed by "oak elm".
C24_Witness ==
  /\ Returned
  /\ ask.pipeline = "speculative"
  /\ Len(ask.entities) = 3
  /\ Len(ask.searches) = 3
  /\ ask.searches[2].q = <<111, 97, 107>>
  /\ ask.searches[3] = [q |-> <<101, 108, 109>>, top_k |-> 3, category |-> None]
  /\ ask.img_searches[1].q = ask.question \o <<32, 111, 97, 107, 32, 101, 108, 109>>
  /\ Len(ask.docs) >= 2

\* ------------------------------------------------- claims on the reranker
Reranked == fn.op = "rerank_by_relevance"

\* How many entries of the list s are the document d.
Occurrences(s, d) == Cardinality({ i \in DOMAIN s : s[i] = d })

\* C25: the reranker returns only documents that store an embedding; a
\* document without one is not in the output at all; the output holds the
\* top_k most similar of the documents of the input that store one (all of
\* them when they are fewer), each as often as the input holds it at most.
C25_RerankSkipsNoEmbedding ==
  Reranked =>
    LET usable == SelectSeq(fn.docs, HasEmbedding) IN
    /\ \A i \in DOMAIN fn.out : HasEmbedding(fn.out[i])
    /\ \A i \in DOMAIN fn.docs :
         ~HasEmbedding(fn.docs[i]) => fn.docs[i] \notin Elems(fn.out)
    /\ Len(fn.out) = Min(fn.limit, Len(usable))
    /\ \A d \in Elems(fn.out) : Occurrences(fn.out, d) <= Occurrences(fn.docs, d)
    /\ \A i, j \in DOMAIN fn.out :
         i < j => TextSim(fn.query, fn.out[i]) >= TextSim(fn.query, fn.out[j])
    /\ \A d \in Elems(usable) \ Elems(fn.out) :
         \A i \in DOMAIN fn.out : TextSim(fn.query, fn.out[i]) >= TextSim(fn.query, d)

\* C25 witness: document 2 stores no embedding; of <<2, 1, 3>> with top_k 15
\* the two others are returned, and document 2 is not the last entry.
C25_Witness ==
  /\ Reranked
  /\ fn.docs = <<2, 1, 3>>
  /\ fn.limit = 15
  /\ Len(fn.out) = 2
  /\ Elems(fn.out) = {1, 3}

\* ------------------------------------------- claims on the embedding caches
\* Every entry of the cache `before' is in the cache `after', with its value.
Kept(before, after) ==
  \A k \in DOMAIN before : k \in DOMAIN after /\ after[k] = before[k]

\* C26 as stated: over any sequence of lookups each embedding model is invoked
\* at most once per text; no cache entry is ever removed or given another
\* value; a lookup of a text that has an entry returns the stored value.
C26_InvokedOncePerText ==
  /\ [](\A k \in Texts : encodes.text[k].invoked <= 1 /\ encodes.clip[k].invoked <= 1)
  /\ [][Kept(text_cache, text_cache') /\ Kept(clip_text_cache, clip_text_cache')]_vars
  /\ [][(fn'.op = "get_embeddings" /\ fn'.query \in DOMAIN text_cache) =>
          fn'.out = text_cache[fn'.query]]_vars
  /\ [][(fn'.op = "get_clip_text_embedding" /\ fn'.query \in DOMAIN clip_text_cache) =>
          fn'.out = clip_text_cache[fn'.query]]_vars

\* C26: over any sequence of lookups each embedding model returns at most once
\* per text, exactly for the texts that are in its cache, and is invoked for a
\* text only while the text has no entry (an invocation that raises stores
\* nothing, so the next lookup of the text invokes the model again); no cache
\* entry is ever removed or given another value; a lookup that returns gives
\* the value the cache holds for the text, which is the one stored by the
\* first lookup that returned, and does so without an invocation once the
\* text has an entry.
C26_LookupsMemoized ==
  /\ [](\A k \in Texts :
          /\ encodes.text[k].returned = IF k \in DOMAIN text_cache THEN 1 ELSE 0
          /\ encodes.clip[k].returned = IF k \in DOMAIN clip_text_cache THEN 1 ELSE 0)
  /\ [][\A k \in Texts :
          /\ k \in DOMAIN text_cache => encodes'.text[k] = encodes.text[k]
          /\ k \in DOMAIN clip_text_cache => encodes'.clip[k] = encodes.clip[k]]_vars
  /\ [][Kept(text_cache, text_cache') /\ Kept(clip_text_cache, clip_text_cache')]_vars
  /\ [](fn.raised =>
          /\ fn.op = "get_embeddings" => fn.query \notin DOMAIN text_cache
          /\ fn.op = "get_clip_text_embedding" => fn.query \notin DOMAIN clip_text_cache)
  /\ []((fn.op = "get_embeddings" /\ ~fn.raised) =>
          fn.query \in DOMAIN text_cache /\ fn.out = text_cache[fn.query])
  /\ []((fn.op = "get_clip_text_embedding" /\ ~fn.raised) =>
          fn.query \in DOMAIN clip_text_cache /\ fn.out = clip_text_cache[fn.query])
  /\ [][(fn'.op = "get_embeddings" /\ fn'.query \in DOMAIN text_cache) =>
          fn'.cached /\ fn'.out = text_cache[fn'.query] /\ encodes' = encodes]_vars
  /\ [][(fn'.op = "get_clip_text_embedding" /\ fn'.query \in DOMAIN clip_text_cache) =>
          fn'.cached /\ fn'.out = clip_text_cache[fn'.query] /\ encodes' = encodes]_vars

\* C26 witness: the first lookup of "a" raised and the second stored <<1, 0>>;
\* "a", "A" and "a " each have their own entry, with different values; "a" is
\* looked up again and its entry is returned, the model having been invoked
\* twice for it and having returned once.
C26_Witness ==
  /\ fn.op = "get_embeddings"
  /\ fn.cached
  /\ fn.query = <<97>>
  /\ DOMAIN text_cache = Texts
  /\ text_cache[<<97>>] = <<1, 0>>
  /\ text_cache[<<65>>] = <<0, 1>>
  /\ fn.out = <<1, 0>>
  /\ encodes.text[<<97>>] = [invoked |-> 2, returned |-> 1]
  /\ DOMAIN clip_text_cache = { <<97>> }

\* ------------------------------------------ claims on the initial registry
\* C27: "category" is in the registry from construction on; no backend call
\* ever carries a filter on it; a search filtered on it, finished, has issued
\* one backend call, the unfiltered one with limit 100 and numCandidates 250,
\* and returned that call's documents filtered locally and cut to its limit.
C27_CategoryNeverSent ==
  /\ "category" \in broken_filters
  /\ \A t \in Threads :
       LET s == th[t] IN
       /\ \A i \in DOMAIN s.calls : "category" \notin DOMAIN s.calls[i].filter
       /\ ("category" \in DOMAIN s.filter /\ s.pc = "done") =>
            /\ Len(s.calls) = 1
            /\ s.calls[1].limit = 100
            /\ s.calls[1].numCandidates = 250
            /\ s.calls[1].filter = NoFilter
            /\ s.calls[1].index = s.sp.index
            /\ IF s.resps[1].ok
               THEN /\ s.ok
                    /\ s.docs = Take(ManualFilter(s.resps[1].docs, s.filter), s.sp.limit)
               ELSE ~s.ok /\ s.err = s.resps[1].err
       /\ ("category" \in DOMAIN s.filter /\ s.pc \notin {"idle", "check", "done"}) =>
            s.pc = "fallback" /\ s.calls = <<>>

\* C27 witness: the first search of a new handler, strict_visual_search with a
\* category, returned through the fallback; the registry is as constructed
\* and no capability error was ever raised.
C27_Witness ==
  /\ broken_filters = {"category"}
  /\ \A k \in Keys : cap_fails[k] = 0
  /\ th[1].pc = "done"
  /\ th[1].method = "strict_visual_search"
  /\ DOMAIN th[1].filter = {"category"}
  /\ th[1].resps[1].docs = <<3, 1, 2>>
  /\ th[1].docs = <<1, 2>>

\* ------------------------------------------ claims on the cost of a request
\* An upper bound of the steps a request in state a still takes.
StepsLeft(a) ==
  CASE a.pc = "probe" -> 8
    [] a.pc = "std_search" -> 3 [] a.pc = "std_images" -> 2 [] a.pc = "std_answer" -> 1
    [] a.pc = "cor_search" -> 6 [] a.pc = "cor_score" -> 5 [] a.pc = "cor_rewrite" -> 4
    [] a.pc = "cor_second" -> 3 [] a.pc = "cor_images" -> 2 [] a.pc = "cor_answer" -> 1
    [] a.pc = "spec_search" -> 7 [] a.pc = "spec_draft" -> 6 [] a.pc = "spec_entities" -> 5
    [] a.pc = "spec_enrich" -> 5 - a.i
    [] a.pc = "spec_answer" -> 2 [] a.pc = "spec_images" -> 1
    [] a.pc = "fus_queries" -> 5 [] a.pc = "fus_search" -> 5 - a.i
    [] a.pc = "fus_images" -> 2 [] a.pc = "fus_answer" -> 1
    [] OTHER -> 0

Running == ask.pc \notin {"idle", "done"}

\* What the external call made at the position of request a can return: the
\* outcomes of its search, or the outputs of the generator and its failure.
CallOutcomes(a) ==
  CASE a.pc = "probe" -> TextSearches(5, None)
    [] a.pc = "std_search" -> TextSearches(10, a.category)
    [] a.pc = "cor_search" -> TextSearches(8, a.category)
    [] a.pc = "cor_second" -> TextSearches(15, None)
    [] a.pc = "spec_search" -> TextSearches(3, a.category)
    [] a.pc = "spec_enrich" -> IF a.i \in DOMAIN Take(a.entities, 2)
                               THEN TextSearches(3, None) ELSE {}
    [] a.pc = "fus_search" -> IF a.i \in DOMAIN a.queries
                              THEN TextSearches(10, a.category) ELSE {}
    [] a.pc \in {"std_images", "cor_images", "spec_images", "fus_images"} ->
         VisualSearches(a.category)
    [] OTHER -> {GenFail, GenAbort}

\* C28: a request that has started ends (it returns, or raises the error of a
\* search or what the answer call raised): while it runs a step is always
\* possible, every step brings it nearer to its end, and it is ended after 8
\* steps at most (the external call of its position has an outcome, and every
\* outcome is a step).  It never makes more than 4 text searches, the probe
\* included, nor more than one image search, and it has made exactly one image
\* search when it returns.
C28_RequestBounded ==
  /\ [](Len(ask.searches) <= 4 /\ Len(ask.img_searches) <= 1)
  /\ [](Returned => Len(ask.img_searches) = 1)
  /\ [](Running => (StepsLeft(ask) \in 1..8 /\ CallOutcomes(ask) # {}))
  /\ [][Running => StepsLeft(ask') < StepsLeft(ask)]_vars

\* C28 witness: an auto request routed to Speculative whose probe found
\* nothing: the probe, the first pass and two entity searches, then one image
\* search, and the result.
C28_Witness ==
  /\ Returned
  /\ ask.req_mode = "auto"
  /\ ask.pipeline = "speculative"
  /\ Len(ask.searches) = 4
  /\ ask.searches[1].top_k = 5
  /\ ask.searches[4].top_k = 3
  /\ Len(ask.img_searches) = 1

\* --------------------------------------------- claims on the fusion order
\* The identifier of d is met in every one of the lists.
InAll(lists, d) ==
  \A l \in DOMAIN lists : \E r \in DOMAIN lists[l] : DocId(lists[l][r]) = DocId(d)

\* `out' is a fusion of two lists of at most 10 documents each, without a
\* repeated identifier, in which the documents of both lists come first.
BothFirst(lists, out) ==
  (/\ Len(lists) = 2
   /\ \A l \in DOMAIN lists :
        /\ Len(lists[l]) <= 10
        /\ \A r, q \in DOMAIN lists[l] : DocId(lists[l][r]) = DocId(lists[l][q]) => r = q)
  => /\ \A i, j \in DOMAIN out :
          (InAll(lists, out[i]) /\ ~InAll(lists, out[j])) => i < j
     /\ \A d \in Elems(Flatten(lists)) :
          (InAll(lists, d) /\ \A i \in DOMAIN out : DocId(out[i]) # DocId(d))
          => \A i \in DOMAIN out : InAll(lists, out[i])

\* C29: fusing two lists of at most 10 documents each, without repeated
\* identifier, with k = 60, puts every document of both lists before every
\* document of one list only, in a direct call and in the Fusion pipeline.
C29_BothListsFirst ==
  /\ fn.op = "fusion_wide" => BothFirst(fn.lists, fn.out)
  /\ (ask.pipeline = "fusion" /\ ask.pc \in {"fus_images", "fus_answer", "done"}
      /\ ask.result.status # "error")
       => BothFirst(ask.all_results, ask.docs)

\* C29 witness: document 1 is last in both lists of 10 (ranks 9 and 9), every
\* other document is in one list only; document 1 is returned first, before
\* the two documents of rank 0.
C29_Witness ==
  /\ fn.op = "fusion_wide"
  /\ fn.lists[1][10] = 1 /\ fn.lists[2][10] = 1
  /\ \A r \in 1..9 : ~InAll(fn.lists, fn.lists[1][r])
  /\ fn.limit = 15
  /\ Len(fn.out) = 15
  /\ fn.out[1] = 1
  /\ fn.out[2] = fn.lists[1][1]
  /\ fn.out[3] = fn.lists[2][1]

====
